---- MODULE Spec2Model ----
(***************************************************************************)
(* Model of eodhp_utils.messagers: Messager.consume, Messager._runaction   *)
(* and CatalogueChangeMessager.process_msg, with the object store (S3)     *)
(* and the Pulsar producer as environment.                                 *)
(*                                                                         *)
(* Strings that the code takes apart or concatenates (store keys,          *)
(* catalogue paths) are sequences of one-character strings.  Python's      *)
(* None is the string "None" for scalar fields and the empty sequence for  *)
(* key fields (the code tests keys with `if action.key`, which treats      *)
(* None and "" alike).                                                     *)
(***************************************************************************)
EXTENDS Integers, Sequences, FiniteSets, TLC

\* ---------------------------------------------------------------- bounds
\* Longest action list a generic process_msg returns.
MaxActions == 2
\* Most keys (over the three lists together) in one catalogue change message.
MaxKeys == 2
\* How many times the clock of the Runner advances (by one sleep of its main loop).
MaxClock == 3
\* Largest max_loops given to Runner.run.
MaxLoops == 2
\* Messages of messager topics dispatched while a takeover is watched.
MaxDispatch == 2
\* Sleeps of the main loop while a takeover is watched.
MaxTakeoverClock == 2
\* Items of the input of GeneratorRunner.consume, its batch size and threads.
\* Takeover broadcasts handled while the Runner's threads are watched.
MaxBroadcasts == 2
MaxInputs == 3
MaxBatch == 2
MaxThreads == 2
\* Keys in each list of a CatalogueChanges operand.
MaxChangeKeys == 1

\* ------------------------------------------------------------ exceptions
None == "None"
NoKey == << >>

Exc(cls, status, code) == [cls |-> cls, status |-> status, code |-> code]
\* "no exception was raised"
NoExc == Exc("", 0, "")

TemporaryFailure == Exc("TemporaryFailure", 0, "")
\* botocore.exceptions.ConnectTimeoutError, a ConnectionError (BotoCoreError)
ConnectTimeoutError == Exc("ConnectionError", 0, "")
\* a BotoCoreError outside the retryable tuple
ParamValidationError == Exc("ParamValidationError", 0, "")
ClientError(status, code) == Exc("ClientError", status, code)
NotFound == ClientError(404, "404")
AccessDenied == ClientError(403, "AccessDenied")
InternalError == ClientError(500, "InternalError")
\* further S3 answers: a missing bucket, a request the server timed out (400)
\* and a throttled request (503)
NoSuchBucket == ClientError(404, "NoSuchBucket")
RequestTimeout == ClientError(400, "RequestTimeout")
SlowDown == ClientError(503, "SlowDown")
\* pulsar.exceptions.Timeout (retryable) and AuthenticationError (not)
PulsarTimeout == Exc("Timeout", 0, "")
PulsarAuthenticationError == Exc("AuthenticationError", 0, "")
\* exceptions unrelated to boto and Pulsar
ValueError == Exc("ValueError", 0, "")
AttributeError == Exc("AttributeError", 0, "")
TypeError == Exc("TypeError", 0, "")
AssertionError == Exc("AssertionError", 0, "")
NotImplementedError == Exc("NotImplementedError", 0, "")
\* jsonschema.exceptions.ValidationError
ValidationError == Exc("ValidationError", 0, "")

\* The BotoCoreError classes named in _is_boto_error_temporary.
RetryableBotoClasses ==
    {"ConnectionError", "HTTPClientError", "NoCredentialsError", "PaginationError",
     "ChecksumError", "WaiterError", "IncompleteReadError", "CapacityNotAvailableError"}
BotoCoreErrorClasses == RetryableBotoClasses \cup {"ParamValidationError"}
PulsarExceptionClasses == {"Timeout", "AuthenticationError"}
ExceptionClasses ==
    {"TemporaryFailure", "ClientError", "ValueError", "AttributeError", "TypeError",
     "AssertionError", "NotImplementedError", "ValidationError"}
        \cup BotoCoreErrorClasses \cup PulsarExceptionClasses

\* isinstance(e, (BotoCoreError, ClientError))
IsBotoError(e) == e.cls \in BotoCoreErrorClasses \/ e.cls = "ClientError"
\* isinstance(e, pulsar.exceptions.PulsarException)
IsPulsarException(e) == e.cls \in PulsarExceptionClasses
\* isinstance(e, Exception)
IsException(e) == e.cls \in ExceptionClasses

\* Mutant: only the HTTP status decides, no BotoCoreError is retryable.
_is_boto_error_temporary_status_only(e) ==
    e.cls = "ClientError" /\ e.status >= 500

_is_boto_error_temporary(e) ==
    IF e.cls = "ClientError"
    THEN e.status >= 500
    ELSE e.cls \in RetryableBotoClasses

\* Mutant: no broker error is retryable.
_is_pulsar_error_temporary_never(e) == FALSE

_is_pulsar_error_temporary(e) == e.cls \in {"Timeout"}

is_temporary_error(e) == _is_boto_error_temporary(e) \/ _is_pulsar_error_temporary(e)

\* ------------------------------------------------------- Messager fields
output_bucket == "testbucket"
Buckets == {"testbucket", "testbucket2"}
cat_output_prefix == <<"o", "/">>

\* ---------------------------------------------------------- data classes
Failures(kp, kt, p, t) ==
    [key_permanent |-> kp, key_temporary |-> kt, permanent |-> p, temporary |-> t]
EmptyFailures == Failures(<< >>, << >>, FALSE, FALSE)

CatalogueChanges(a, u, d) == [added |-> a, updated |-> u, deleted |-> d]
EmptyChanges == CatalogueChanges(<< >>, << >>, << >>)
\* Mutant: deletions alone do not count as a change.
CatalogueChanges_bool_no_deleted(cc) == cc.added # << >> \/ cc.updated # << >>

\* CatalogueChanges.__bool__
CatalogueChanges_bool(cc) == cc.added # << >> \/ cc.updated # << >> \/ cc.deleted # << >>

OutputFileAction(bucket, file_body, cat_path) ==
    [type |-> "OutputFileAction", bucket |-> bucket, file_body |-> file_body,
     cat_path |-> cat_path, key |-> NoKey, permanent |-> FALSE]
S3UploadAction(bucket, file_body, key) ==
    [type |-> "S3UploadAction", bucket |-> bucket, file_body |-> file_body,
     cat_path |-> NoKey, key |-> key, permanent |-> FALSE]
FailureAction(key, permanent) ==
    [type |-> "FailureAction", bucket |-> None, file_body |-> None,
     cat_path |-> NoKey, key |-> key, permanent |-> permanent]
\* an Action subclass _runaction does not know
UnknownAction ==
    [type |-> "Action", bucket |-> None, file_body |-> None,
     cat_path |-> NoKey, key |-> NoKey, permanent |-> FALSE]

IsS3Action(action) == action.type \in {"OutputFileAction", "S3UploadAction"}

\* ------------------------------------------------------------ the store
\* Catalogue paths and explicit keys that actions name.
CatPaths == {<<"a">>, <<"a", "/", "b">>}
UploadKeys == {<<"u">>}
StoreKeys == {cat_output_prefix \o p : p \in CatPaths} \cup UploadKeys
Bodies == {"new"}
\* An object store: the body held under (bucket, key), None when there is none.
EmptyStore == [loc \in Buckets \X StoreKeys |-> None]

\* Errors the store client can raise whatever the store holds: a timeout,
\* a 5xx and a 4xx response, and a non-boto error (s3_client is None).
StoreFaults == {ConnectTimeoutError, InternalError, AccessDenied, AttributeError}

\* Mutant: the existence check never finds the object.
head_object_never_there(st, bucket, key, fault) ==
    IF fault # NoExc THEN fault ELSE NotFound

\* s3_client.head_object: the fault if one strikes, 404 if nothing is there.
head_object(st, bucket, key, fault) ==
    IF fault # NoExc THEN fault
    ELSE IF st[<<bucket, key>>] = None THEN NotFound
    ELSE NoExc

\* s3_client.put_object / delete_object, chosen by file_body as _runaction does.
store_write(st, bucket, key, file_body) ==
    [st EXCEPT ![<<bucket, key>>] = file_body]

\* ----------------------------------------------------- Messager._runaction
\* bucket = action.bucket or self.output_bucket
action_bucket(action) == IF action.bucket # None THEN action.bucket ELSE output_bucket

\* key = self.cat_output_prefix + action.cat_path, or action.key
action_key(action) ==
    IF action.type = "OutputFileAction"
    THEN cat_output_prefix \o action.cat_path
    ELSE action.key

\* Does the classification part of an S3 action run the existence check?
needs_head(action) == action.type = "OutputFileAction" /\ action.file_body # None

\* Mutant: every ClientError from the existence check counts as "not found".
classify_raises_any_client_error(headExc) ==
    IF headExc = NoExc THEN NoExc
    ELSE IF headExc.cls = "ClientError" THEN NoExc
    ELSE headExc

\* The exception leaving the classification part (NoExc when it completes):
\* a ClientError saying "not found" is swallowed, anything else is raised.
classify_raises(headExc) ==
    IF headExc = NoExc THEN NoExc
    ELSE IF headExc.cls = "ClientError" /\ headExc.code \in {"NoSuchKey", "404"} THEN NoExc
    ELSE headExc

\* Mutant: the outcome of the existence check is read the wrong way round.
record_change_swapped(action, cc, headExc) ==
    IF action.type # "OutputFileAction" THEN cc
    ELSE IF action.file_body = None
         THEN [cc EXCEPT !.deleted = Append(@, action_key(action))]
    ELSE IF headExc = NoExc
         THEN [cc EXCEPT !.added = Append(@, action_key(action))]
    ELSE IF classify_raises(headExc) = NoExc
         THEN [cc EXCEPT !.updated = Append(@, action_key(action))]
    ELSE cc

\* Mutant: a delete is announced only by the write branch's classification
\* (the file_body test is missing, so the existence check decides).
record_change_no_delete(action, cc, headExc) ==
    IF action.type # "OutputFileAction" THEN cc
    ELSE IF headExc = NoExc
         THEN [cc EXCEPT !.updated = Append(@, action_key(action))]
    ELSE IF classify_raises(headExc) = NoExc
         THEN [cc EXCEPT !.added = Append(@, action_key(action))]
    ELSE cc

\* Mutant: the classification runs for every S3Action, not only OutputFileAction.
record_change_all_s3(action, cc, headExc) ==
    IF action.file_body = None
    THEN [cc EXCEPT !.deleted = Append(@, action_key(action))]
    ELSE IF headExc = NoExc
         THEN [cc EXCEPT !.updated = Append(@, action_key(action))]
    ELSE IF classify_raises(headExc) = NoExc
         THEN [cc EXCEPT !.added = Append(@, action_key(action))]
    ELSE cc

\* The catalogue changes after the classification part; headExc is what
\* head_object raised (consulted only when the check runs).
record_change(action, cc, headExc) ==
    IF action.type # "OutputFileAction" THEN cc
    ELSE IF action.file_body = None
         THEN [cc EXCEPT !.deleted = Append(@, action_key(action))]
    ELSE IF headExc = NoExc
         THEN [cc EXCEPT !.updated = Append(@, action_key(action))]
    ELSE IF classify_raises(headExc) = NoExc
         THEN [cc EXCEPT !.added = Append(@, action_key(action))]
    ELSE cc

\* except (BotoCoreError, ClientError): set one whole-message flag
record_store_error(e, f) ==
    IF _is_boto_error_temporary(e)
    THEN [f EXCEPT !.temporary = TRUE]
    ELSE [f EXCEPT !.permanent = TRUE]

\* Mutant: `if` instead of `elif`, a keyed failure also sets the flag.
record_failure_action_also_flag(action, f) ==
    LET g == IF action.key # NoKey
             THEN IF action.permanent
                  THEN [f EXCEPT !.key_permanent = Append(@, action.key)]
                  ELSE [f EXCEPT !.key_temporary = Append(@, action.key)]
             ELSE f
    IN  IF action.permanent
        THEN [g EXCEPT !.permanent = TRUE]
        ELSE [g EXCEPT !.temporary = TRUE]

\* The FailureAction branch.
record_failure_action(action, f) ==
    IF action.key # NoKey
    THEN IF action.permanent
         THEN [f EXCEPT !.key_permanent = Append(@, action.key)]
         ELSE [f EXCEPT !.key_temporary = Append(@, action.key)]
    ELSE IF action.permanent
         THEN [f EXCEPT !.permanent = TRUE]
         ELSE [f EXCEPT !.temporary = TRUE]

\* Mutant: the except clause of _runaction is missing, a store error leaves it.
_runaction_store_error_escapes(action, st, cc, f, hf, wf) ==
    IF IsS3Action(action)
    THEN LET bucket == action_bucket(action)
             key == action_key(action)
             headExc == IF needs_head(action) THEN head_object(st, bucket, key, hf) ELSE NoExc
             cc1 == record_change(action, cc, headExc)
             e1 == classify_raises(headExc)
             e == IF e1 # NoExc THEN e1 ELSE wf
             st1 == IF e = NoExc THEN store_write(st, bucket, key, action.file_body) ELSE st
         IN  [store |-> st1, cat_changes |-> cc1, failures |-> f, raised |-> e]
    ELSE IF action.type = "FailureAction"
    THEN [store |-> st, cat_changes |-> cc,
          failures |-> record_failure_action(action, f), raised |-> NoExc]
    ELSE [store |-> st, cat_changes |-> cc, failures |-> f, raised |-> AssertionError]

\* One call of _runaction on store st.  hf and wf are the faults striking the
\* existence check and the write/delete (NoExc for none).  The result holds
\* the store, changes and failures afterwards and the exception that leaves
\* _runaction (NoExc if it returns).
_runaction(action, st, cc, f, hf, wf) ==
    IF IsS3Action(action)
    THEN LET bucket == action_bucket(action)
             key == action_key(action)
             headExc == IF needs_head(action) THEN head_object(st, bucket, key, hf) ELSE NoExc
             cc1 == record_change(action, cc, headExc)
             e1 == classify_raises(headExc)
             e == IF e1 # NoExc THEN e1 ELSE wf
             st1 == IF e = NoExc THEN store_write(st, bucket, key, action.file_body) ELSE st
         IN  IF e = NoExc
             THEN [store |-> st1, cat_changes |-> cc1, failures |-> f, raised |-> NoExc]
             ELSE IF IsBotoError(e)
             THEN [store |-> st1, cat_changes |-> cc1,
                   failures |-> record_store_error(e, f), raised |-> NoExc]
             ELSE [store |-> st1, cat_changes |-> cc1, failures |-> f, raised |-> e]
    ELSE IF action.type = "FailureAction"
    THEN [store |-> st, cat_changes |-> cc,
          failures |-> record_failure_action(action, f), raised |-> NoExc]
    ELSE [store |-> st, cat_changes |-> cc, failures |-> f, raised |-> AssertionError]

\* ------------------------------------------------------ Messager.consume
\* Mutant: the last clause catches only store errors.
consume_catches_narrow(e) ==
    e.cls = "TemporaryFailure" \/ IsPulsarException(e) \/ IsBotoError(e)

\* Which exceptions the three except clauses of consume catch.
consume_catches(e) ==
    e.cls = "TemporaryFailure" \/ IsPulsarException(e) \/ IsException(e)

\* Mutant: the TemporaryFailure clause is missing.
consume_except_no_temporary(e, f) ==
    IF IsPulsarException(e)
    THEN IF _is_pulsar_error_temporary(e)
         THEN [f EXCEPT !.temporary = TRUE]
         ELSE [f EXCEPT !.permanent = TRUE]
    ELSE IF is_temporary_error(e)
    THEN [f EXCEPT !.temporary = TRUE]
    ELSE [f EXCEPT !.permanent = TRUE]

\* The failures after the except clause that catches e has run.
consume_except(e, f) ==
    IF e.cls = "TemporaryFailure"
    THEN [f EXCEPT !.temporary = TRUE]
    ELSE IF IsPulsarException(e)
    THEN IF _is_pulsar_error_temporary(e)
         THEN [f EXCEPT !.temporary = TRUE]
         ELSE [f EXCEPT !.permanent = TRUE]
    ELSE IF is_temporary_error(e)
    THEN [f EXCEPT !.temporary = TRUE]
    ELSE [f EXCEPT !.permanent = TRUE]

\* gen_catalogue_message: the envelope with the three key lists filled in.
gen_catalogue_message(empty_msg, cc) ==
    [id |-> empty_msg.id, workspace |-> empty_msg.workspace,
     bucket_name |-> empty_msg.bucket_name,
     source |-> empty_msg.source, target |-> empty_msg.target,
     added_keys |-> cc.added, updated_keys |-> cc.updated, deleted_keys |-> cc.deleted]

\* ================================================================ state
VARIABLES
    msg,               \* the message handed to consume, as json.loads decodes it
    pc,                \* where the consume call is: idle, process_msg, keys, run_actions, publish, done
    messager,          \* class of the messager: "Messager" or "CatalogueChangeMessager"
    input_change_msg,  \* self.input_change_msg, the decoded input envelope
    pos,               \* process_msg (catalogue change): number of keys handled so far
    calls,             \* history: the process_update / process_delete calls made, in order
    actions,           \* the actions process_msg returned (all_actions while it is built)
    idx,               \* number of actions _runaction has been called on
    cat_changes,       \* the CatalogueChanges of this consume call
    failures,          \* the Failures of this consume call
    store,             \* contents of the object store
    published,         \* notifications producer.send accepted during this consume call
    outcome,           \* how consume ended: "returned" or "raised" ("" while running)
    raised,            \* history: the exception that reached consume's except clauses,
                       \* the stage that raised it (stage "" if none did) and the
                       \* Failures at that moment
    last,              \* history: the last _runaction call: the action, whether an object
                       \* was under its key, whether the existence check / the write
                       \* raised, and the changes and failures before it
    tstate,            \* concurrent consume calls: for each dispatch thread, where its
                       \* call is and the call's local variables
    takeover_mode,     \* Runner.takeover_mode
    max_loops,         \* run(max_loops): iterations left, 0 for None (no limit)
    running,           \* is the main loop of Runner.run still running?
    _suspended_until,  \* Runner._suspended_until, in milliseconds (0: not suspended)
    now,               \* time.time(), in milliseconds
    wake,              \* when the main loop's time.sleep ends
    listener_paused,   \* for each owned consumer: is its message listener paused?
    rlast,             \* history: the last handler the Runner ran (_process_messager_msg,
                       \* _process_takeover or a main-loop iteration), the message, the
                       \* calls it made on consumers, messagers and the producer, and
                       \* _suspended_until and the time when it started
    context,           \* the trace context active on the dispatching thread
    run_arg,           \* the max_loops argument run was called with, 0 for None
    sent,              \* the messages takeover_producer.send has published, in order
    siblings,          \* the other Runners of the subscription (not in takeover mode):
                       \* for each its _suspended_until, whether the listeners of its
                       \* owned consumers are paused, when its main loop wakes, and the
                       \* messages its debug topic consumer holds unread
    delivered,         \* how many of the published broadcasts the broker has delivered
    dispatched,        \* history: which Runner passed a message of a messager topic to
                       \* its messager, and when
    race,              \* the Runner's threads step by step: where the main loop is,
                       \* where each dispatch thread is in _process_takeover and the
                       \* value it read, and (history) the deadlines the handlers have
                       \* asked for since the main loop last reset _suspended_until
    cc_call,           \* a call of CatalogueChanges.add and of bool(): the operands and
                       \* what the calls returned or raised
    latest_takeover,   \* history: the takeover broadcast naming the Runner's own
                       \* subscription that it handled last: when, its publish time,
                       \* and whether the Runner was suspended, its deadline not passed
    fa_call,           \* calls of Failures.add on three operands: the operands before
                       \* and after, and what the calls returned
    previous,          \* history: the consume call before a redelivery of the same
                       \* message: its actions, CatalogueChanges, Failures and
                       \* notifications, and the store the redelivery starts from
    gr                 \* a GeneratorRunner.consume call: the runner's fields, the input,
                       \* the executor (work queue, worker threads, futures), the
                       \* batches the messager received and how the call ended

\* The variables of concurrent consume calls and of the Runner.
threadVars == <<tstate>>
\* The variables only a call of Failures.add or a redelivery touches.
mergeVars == <<fa_call, previous>>
takeoverVars == <<run_arg, sent, latest_takeover, mergeVars>>
siblingVars == <<siblings, delivered, dispatched>>
\* The variables no handler of a single Runner touches.
restVars == <<siblingVars, gr, cc_call, race>>
runnerVars == <<takeover_mode, max_loops, running, _suspended_until, now, wake,
                listener_paused, rlast, context, takeoverVars, restVars>>

vars == <<msg, pc, messager, input_change_msg, pos, calls, actions, idx, cat_changes,
          failures, store, published, outcome, raised, last, threadVars, runnerVars>>

\* No envelope (a generic Messager has none).
NoEnvelope ==
    [id |-> None, workspace |-> None, bucket_name |-> None, source |-> None, target |-> None,
     added_keys |-> << >>, updated_keys |-> << >>, deleted_keys |-> << >>]
NoLast == [action |-> UnknownAction, ran |-> FALSE,
           head_failed |-> FALSE, write_failed |-> FALSE, store_error |-> FALSE,
           error |-> NoExc,
           before |-> EmptyChanges, fbefore |-> EmptyFailures, sbefore |-> EmptyStore]
NotRaised == [stage |-> "", exc |-> NoExc, before |-> EmptyFailures]

\* The elements of a list.
Range(q) == {q[i] : i \in 1..Len(q)}

\* Runner._create_subscriptions: one consumer per topic and thread.
_messager_consumers == <<"test-topic-0", "test-topic-1">>
NoRunnerMsg == [topic_name |-> << >>, data |-> None, publish_timestamp |-> 0]
\* A trace context: the trace it belongs to and its current span.
Context(trace, span) == [trace |-> trace, span |-> span]
EmptyContext == Context(None, None)
\* Failures.add has not been called.
NoMerge ==
    [a |-> EmptyFailures, b |-> EmptyFailures, c |-> EmptyFailures, called |-> FALSE,
     after |-> <<EmptyFailures, EmptyFailures, EmptyFailures>>,
     ab |-> EmptyFailures, ba |-> EmptyFailures, ab_c |-> EmptyFailures,
     a_bc |-> EmptyFailures, a_empty |-> EmptyFailures, empty_a |-> EmptyFailures]
\* The message has not been delivered before.
NoPrevious ==
    [redelivered |-> FALSE, actions |-> << >>, cat_changes |-> EmptyChanges,
     failures |-> EmptyFailures, published |-> << >>, store |-> EmptyStore]
\* No broadcast naming the Runner's subscription has been handled.
NoBroadcast == [at |-> -1, publish_timestamp |-> -1, further |-> FALSE]
NoRLast ==
    [handler |-> "", consumer |-> "", msg |-> NoRunnerMsg, calls |-> << >>,
     returned |-> FALSE, result |-> EmptyFailures, raised |-> "",
     before |-> 0, pbefore |-> [c \in Range(_messager_consumers) |-> FALSE], at |-> 0,
     properties |-> None, ctx_before |-> EmptyContext, ctx_consume |-> EmptyContext]

\* The Runners sharing a subscription with a Runner in takeover mode.
Siblings == {1, 2}
NewSibling ==
    [_suspended_until |-> 0, paused |-> FALSE, wake |-> 0, received |-> << >>]
\* The dispatch threads that run consume concurrently on one messager.
Threads == {1, 2}
\* The main loop asleep and every dispatch thread idle.
IdleHandler == [pc |-> "idle", msg |-> NoRunnerMsg, local |-> 0, i |-> 0]
NoRace ==
    [loop |-> [pc |-> "sleep", i |-> 0],
     handlers |-> [t \in Threads |-> IdleHandler],
     started |-> 0,
     extended |-> {}]

\* CatalogueChanges operands, before add or bool() is called on them.
NewChangesCall(self, other) ==
    [self |-> self, other |-> other, add_called |-> FALSE, bool_called |-> FALSE,
     raised |-> NoExc, returned |-> EmptyChanges, truthy |-> FALSE]
Worker(state, batch) == [state |-> state, batch |-> batch]
\* A GeneratorRunner whose consume has just been called.
NewGeneratorRunner(inputs, batch_size, threads) ==
    [inputs |-> inputs, batch_size |-> batch_size, threads |-> threads,
     pc |-> "map", submitted |-> 0, work_queue |-> << >>,
     spawned |-> 0, idle_semaphore |-> 0,
     workers |-> [w \in 1..MaxThreads |-> Worker("idle", 0)],
     taken |-> << >>, messages_received |-> << >>, thread_ids |-> {},
     futures |-> << >>, finished |-> {},
     raised |-> NoExc, returned |-> EmptyFailures]
NoSiblings ==
    /\ siblings = [i \in Siblings |-> NewSibling]
    /\ delivered = 0
    /\ dispatched = << >>
    /\ gr = NewGeneratorRunner(<< >>, 1, 0)
    /\ cc_call = NewChangesCall(EmptyChanges, EmptyChanges)
    /\ race = NoRace

\* A Runner that has just been constructed (not in takeover mode).
NewRunner ==
    /\ takeover_mode = FALSE
    /\ max_loops = 0
    /\ running = TRUE
    /\ _suspended_until = 0
    /\ now = 0
    /\ wake = 0
    /\ listener_paused = [c \in Range(_messager_consumers) |-> FALSE]
    /\ rlast = NoRLast
    /\ context = EmptyContext
    /\ run_arg = 0
    /\ sent = << >>
    /\ latest_takeover = NoBroadcast
    /\ fa_call = NoMerge
    /\ previous = NoPrevious
    /\ NoSiblings


\* A consume call that has not started: its message, the local variable
\* input_change_msg of process_msg, its actions, CatalogueChanges and
\* Failures, and the notification it sent.
NoCall ==
    [pc |-> "idle", msg |-> NoEnvelope, local |-> NoEnvelope, actions |-> << >>, idx |-> 0,
     cat_changes |-> EmptyChanges, failures |-> EmptyFailures, sent |-> << >>]
IdleThreads == [t \in Threads |-> NoCall]

\* ------------------------------------------------------ inputs (bounded)
\* Actions a generic process_msg may return.
ActionSet ==
    {OutputFileAction(None, b, p) : b \in Bodies \cup {None}, p \in CatPaths}
        \cup {S3UploadAction(bk, b, k) :
                bk \in {None, "testbucket2"}, b \in Bodies \cup {None}, k \in UploadKeys}
        \cup {FailureAction(k, perm) : k \in {NoKey, <<"s", "/", "a">>}, perm \in BOOLEAN}
        \cup {UnknownAction}

RECURSIVE SeqsUpTo(_, _)
SeqsUpTo(S, n) ==
    IF n = 0 THEN {<< >>}
    ELSE LET shorter == SeqsUpTo(S, n - 1)
         IN  shorter \cup {Append(q, x) : q \in shorter, x \in S}

ActionLists == SeqsUpTo(ActionSet, MaxActions)

\* Exceptions a subclass's process_msg may raise.
ProcessMsgExceptions ==
    {TemporaryFailure, ValueError, PulsarTimeout, PulsarAuthenticationError,
     ConnectTimeoutError, ParamValidationError, InternalError, AccessDenied}

\* Outcomes of building, encoding and sending the notification: NoExc, or the
\* exception raised by gen_empty_catalogue_message (NotImplementedError),
\* json.dumps (TypeError) or producer.send (a PulsarException; AttributeError
\* when producer is None).
PublishFaults ==
    {[stage |-> "gen_empty_catalogue_message", exc |-> NotImplementedError],
     [stage |-> "encode", exc |-> TypeError],
     [stage |-> "send", exc |-> PulsarTimeout],
     [stage |-> "send", exc |-> PulsarAuthenticationError],
     [stage |-> "send", exc |-> AttributeError]}

\* ---------------------------------------------------------------- steps
Init ==
    /\ msg = NoEnvelope
    /\ pc = "idle"
    /\ messager = "Messager"
    /\ input_change_msg = NoEnvelope
    /\ pos = 0
    /\ calls = << >>
    /\ actions = << >>
    /\ idx = 0
    /\ cat_changes = EmptyChanges
    /\ failures = EmptyFailures
    /\ store = EmptyStore
    /\ published = << >>
    /\ outcome = ""
    /\ raised = NotRaised
    /\ last = NoLast
    /\ tstate = IdleThreads
    /\ NewRunner

\* consume is entered: failures = Messager.Failures()
StartConsume ==
    /\ pc \in {"idle", "done"}
    /\ pc' = "process_msg"
    /\ failures' = EmptyFailures
    /\ cat_changes' = EmptyChanges
    /\ actions' = << >>
    /\ idx' = 0
    /\ pos' = 0
    /\ calls' = << >>
    /\ published' = << >>
    /\ outcome' = ""
    /\ raised' = NotRaised
    /\ last' = NoLast
    /\ input_change_msg' = NoEnvelope
    /\ msg' = NoEnvelope
    /\ UNCHANGED <<threadVars, runnerVars, messager, store>>

\* The first delivery of a message: consume is entered.
FirstDelivery ==
    /\ pc = "idle"
    /\ StartConsume

\* An exception e raised at `stage` inside consume's try block reaches the
\* except clauses: caught and recorded, or propagated to the caller.
Raise(e, stage, f) ==
    /\ pc' = "done"
    /\ raised' = [stage |-> stage, exc |-> e, before |-> f]
    /\ IF consume_catches(e)
       THEN failures' = consume_except(e, f) /\ outcome' = "returned"
       ELSE failures' = f /\ outcome' = "raised"

\* Where consume goes once `n` of the actions `as` have run with changes cc:
\* the next action, the notification, or the return.
after_actions(as, n, cc) ==
    IF n < Len(as) THEN "run_actions"
    ELSE IF CatalogueChanges_bool(cc) THEN "publish"
    ELSE "done"

\* The call returns normally when nothing is left to do.
Proceed(as, n, cc) ==
    /\ pc' = after_actions(as, n, cc)
    /\ outcome' = IF after_actions(as, n, cc) = "done" THEN "returned" ELSE ""
    /\ raised' = NotRaised

\* The messagers whose actions come straight from the subclass: process_msg
\* is the subclass's own, or (PulsarJSONMessager) hands msg.value() to the
\* subclass's process_payload and returns what that returns.
PlainMessagers == {"Messager", "PulsarJSONMessager"}

\* process_msg of a generic Messager subclass: raises or returns actions.
ProcessMsgRaises ==
    /\ pc = "process_msg"
    /\ messager \in PlainMessagers
    /\ \E e \in ProcessMsgExceptions : Raise(e, "process_msg", failures)
    /\ UNCHANGED <<threadVars, runnerVars, msg, messager, input_change_msg, pos, calls, actions, idx, cat_changes,
                   store, published, last>>

ProcessMsgReturning(lists) ==
    /\ pc = "process_msg"
    /\ messager \in PlainMessagers
    /\ \E as \in lists :
          /\ actions' = as
          /\ Proceed(as, 0, EmptyChanges)
    /\ cat_changes' = EmptyChanges
    /\ UNCHANGED <<threadVars, runnerVars, msg, messager, input_change_msg, pos, calls, idx, failures,
                   store, published, last>>

ProcessMsgReturns == ProcessMsgReturning(ActionLists)

\* One iteration of `for action in actions: self._runaction(...)`.
RunAction(faults) ==
    /\ pc = "run_actions"
    /\ idx < Len(actions)
    /\ \E hf \in {NoExc} \cup (IF needs_head(actions[idx + 1]) THEN faults ELSE {}),
          wf \in {NoExc} \cup (IF IsS3Action(actions[idx + 1]) THEN faults ELSE {}) :
          LET action == actions[idx + 1]
              r == _runaction(action, store, cat_changes, failures, hf, wf)
          IN  /\ store' = r.store
              /\ cat_changes' = r.cat_changes
              /\ idx' = idx + 1
              /\ last' = [action |-> action, ran |-> TRUE,
                          head_failed |-> hf # NoExc,
                          write_failed |-> hf = NoExc /\ wf # NoExc,
                          store_error |-> last.store_error \/ hf # NoExc \/ wf # NoExc,
                          error |-> IF hf # NoExc THEN hf ELSE wf,
                          before |-> cat_changes, fbefore |-> failures, sbefore |-> store]
              /\ IF r.raised # NoExc
                 THEN Raise(r.raised, "_runaction", r.failures)
                 ELSE failures' = r.failures /\ Proceed(actions, idx + 1, r.cat_changes)
    /\ UNCHANGED <<threadVars, runnerVars, msg, messager, input_change_msg, pos, calls, actions, published>>

\* The notification is built, encoded and sent (or one of these raises).
empty_catalogue_message ==
    [id |-> input_change_msg.id, workspace |-> input_change_msg.workspace,
     bucket_name |-> output_bucket,
     source |-> input_change_msg.source, target |-> input_change_msg.target,
     added_keys |-> << >>, updated_keys |-> << >>, deleted_keys |-> << >>]

Publish ==
    /\ pc = "publish"
    /\ \/ /\ published' = Append(published,
                                 gen_catalogue_message(empty_catalogue_message, cat_changes))
          /\ pc' = "done"
          /\ outcome' = "returned"
          /\ raised' = NotRaised
          /\ UNCHANGED failures
       \/ /\ \E pf \in PublishFaults : Raise(pf.exc, pf.stage, failures)
          /\ UNCHANGED published
    /\ UNCHANGED <<threadVars, runnerVars, msg, messager, input_change_msg, pos, calls, actions, idx, cat_changes,
                   store, last>>

RunActionStep == RunAction(StoreFaults)

Next ==
    \/ StartConsume
    \/ ProcessMsgRaises
    \/ ProcessMsgReturns
    \/ RunActionStep
    \/ Publish

Spec == Init /\ [][Next]_vars

\* ---------------------------------------------------------- store errors
\* One message is consumed whose S3 actions meet every kind of store error:
\* each BotoCoreError class and client errors with 4xx and 5xx answers.
AllStoreErrors ==
    {Exc(c, 0, "") : c \in BotoCoreErrorClasses}
        \cup {AccessDenied, NoSuchBucket, RequestTimeout, InternalError, SlowDown}
StoreActions ==
    {OutputFileAction(None, "new", <<"a">>), OutputFileAction(None, None, <<"a">>),
     S3UploadAction("testbucket2", "new", <<"u">>)}

ProcessMsgStore == ProcessMsgReturning(SeqsUpTo(StoreActions, MaxActions))
RunActionStore == RunAction(AllStoreErrors)

NextStore ==
    \/ FirstDelivery
    \/ ProcessMsgStore
    \/ RunActionStore
    \/ Publish

SpecStore == Init /\ [][NextStore]_vars

\* ------------------------------------------------------ PulsarJSONMessager
InitJSON ==
    /\ msg = NoEnvelope
    /\ pc = "idle"
    /\ messager = "PulsarJSONMessager"
    /\ input_change_msg = NoEnvelope
    /\ pos = 0
    /\ calls = << >>
    /\ actions = << >>
    /\ idx = 0
    /\ cat_changes = EmptyChanges
    /\ failures = EmptyFailures
    /\ store = EmptyStore
    /\ published = << >>
    /\ outcome = ""
    /\ raised = NotRaised
    /\ last = NoLast
    /\ tstate = IdleThreads
    /\ NewRunner

\* The store may time out or the client may fail while the actions run.
RunActionJSON == RunAction({ConnectTimeoutError, AttributeError})

\* gen_catalogue_message calls gen_empty_catalogue_message, which raises.
PublishJSON ==
    /\ pc = "publish"
    /\ messager = "PulsarJSONMessager"
    /\ Raise(NotImplementedError, "gen_empty_catalogue_message", failures)
    /\ UNCHANGED <<threadVars, runnerVars, msg, messager, input_change_msg, pos, calls, actions,
                   idx, cat_changes, store, published, last>>

NextJSON ==
    \/ FirstDelivery
    \/ ProcessMsgRaises
    \/ ProcessMsgReturns
    \/ RunActionJSON
    \/ PublishJSON

SpecJSON == InitJSON /\ [][NextJSON]_vars

\* ----------------------------------------------------------- redelivery
\* A message is consumed, and consumed again after the first call returned
\* (the broker redelivers it); process_msg returns the same actions for it.
\* The actions are OutputFileActions naming different catalogue paths, and
\* the output bucket may hold objects under their keys beforehand.
OutputActions == {OutputFileAction(None, b, p) : b \in Bodies \cup {None}, p \in CatPaths}
RedeliveryLists ==
    {as \in SeqsUpTo(OutputActions, MaxActions) :
        \A i, j \in 1..Len(as) : i # j => as[i].cat_path # as[j].cat_path}
InitialStores ==
    {[loc \in Buckets \X StoreKeys |->
        IF loc[1] = output_bucket /\ loc[2] \in there THEN "old" ELSE None] :
        there \in SUBSET {cat_output_prefix \o p : p \in CatPaths}}

InitRedelivery ==
    /\ msg = NoEnvelope
    /\ pc = "idle"
    /\ messager = "Messager"
    /\ input_change_msg = NoEnvelope
    /\ pos = 0
    /\ calls = << >>
    /\ actions = << >>
    /\ idx = 0
    /\ cat_changes = EmptyChanges
    /\ failures = EmptyFailures
    /\ store \in InitialStores
    /\ published = << >>
    /\ outcome = ""
    /\ raised = NotRaised
    /\ last = NoLast
    /\ tstate = IdleThreads
    /\ NewRunner

\* The first delivery: process_msg returns.
ProcessMsgFirst ==
    /\ ~ previous.redelivered
    /\ ProcessMsgReturning(RedeliveryLists)

\* The message is delivered again: consume is entered for it a second time.
Redeliver ==
    /\ pc = "done"
    /\ outcome = "returned"
    /\ ~ previous.redelivered
    /\ previous' = [redelivered |-> TRUE, actions |-> actions, cat_changes |-> cat_changes,
                    failures |-> failures, published |-> published, store |-> store]
    /\ pc' = "process_msg"
    /\ failures' = EmptyFailures
    /\ cat_changes' = EmptyChanges
    /\ actions' = << >>
    /\ idx' = 0
    /\ pos' = 0
    /\ calls' = << >>
    /\ published' = << >>
    /\ outcome' = ""
    /\ raised' = NotRaised
    /\ last' = NoLast
    /\ input_change_msg' = NoEnvelope
    /\ msg' = NoEnvelope
    /\ UNCHANGED <<threadVars, restVars, messager, store, run_arg, sent, latest_takeover,
                   fa_call, takeover_mode, max_loops, running, _suspended_until, now, wake,
                   listener_paused, rlast, context>>

\* process_msg returns for the redelivered message what it returned before.
ProcessMsgAgain ==
    /\ previous.redelivered
    /\ ProcessMsgReturning({previous.actions})

\* The store may time out while the actions run.
RunActionRedelivery == RunAction({ConnectTimeoutError})

NextRedelivery ==
    \/ FirstDelivery
    \/ ProcessMsgFirst
    \/ Redeliver
    \/ ProcessMsgAgain
    \/ RunActionRedelivery
    \/ Publish

SpecRedelivery == InitRedelivery /\ [][NextRedelivery]_vars

\* ======================================= CatalogueChangeMessager.process_msg
\* Input keys "<stage-prefix>/<catalogue-path>"; "n" has no '/'.
WellFormedKeys == {<<"s", "/", "a">>, <<"s", "/", "a", "/", "b">>}
MalformedKeys == {<<"n">>}
InputKeys == WellFormedKeys \cup MalformedKeys

\* Index of the first "/" of a string, 0 if it has none.
RECURSIVE find_slash(_, _)
find_slash(str, i) ==
    IF i > Len(str) THEN 0
    ELSE IF str[i] = "/" THEN i
    ELSE find_slash(str, i + 1)

\* key.split("/", 1)
split1(key) ==
    LET i == find_slash(key, 1)
    IN  IF i = 0 THEN <<key>>
        ELSE <<SubSeq(key, 1, i - 1), SubSeq(key, i + 1, Len(key))>>

\* The keys of an envelope in the order of the two nested for loops, each
\* with the list it came from.
tagged(change_type, keys) == [i \in 1..Len(keys) |-> [change_type |-> change_type, key |-> keys[i]]]
\* Mutant: the deleted keys are handled first.
keys_in_order_deleted_first(env) ==
    tagged("deleted_keys", env.deleted_keys)
        \o tagged("added_keys", env.added_keys)
        \o tagged("updated_keys", env.updated_keys)

keys_in_order(env) ==
    tagged("added_keys", env.added_keys)
        \o tagged("updated_keys", env.updated_keys)
        \o tagged("deleted_keys", env.deleted_keys)

Envelope(a, u, d) ==
    [id |-> "m1", workspace |-> "ws1", bucket_name |-> "testbucket-in",
     source |-> "src1", target |-> "tgt1",
     added_keys |-> a, updated_keys |-> u, deleted_keys |-> d]

\* Every way of cutting a list of at most MaxKeys keys into the three lists.
Envelopes ==
    {Envelope(SubSeq(ks, 1, i), SubSeq(ks, i + 1, j), SubSeq(ks, j + 1, Len(ks))) :
        <<ks, i, j>> \in {t \in SeqsUpTo(InputKeys, MaxKeys) \X (0..MaxKeys) \X (0..MaxKeys) :
                            t[2] <= t[3] /\ t[3] <= Len(t[1])}}

\* What process_update / process_delete may do for one key: raise, or
\* return a list of actions.
HandlerExceptions ==
    {TemporaryFailure, ValueError, PulsarTimeout, ConnectTimeoutError, AccessDenied}
HandlerReturns(cat_path) ==
    {<< >>,
     <<OutputFileAction(None, "new", cat_path)>>,
     <<FailureAction(NoKey, FALSE)>>}

\* What a handler call did: the exception it raised (NoExc if it returned),
\* the actions it returned, the answers the store gave to its get_object
\* calls, the number of get_object calls made, the entry_body passed on
\* (NoBody if none was), and what the inner abstract method it reached did.
Outcome(e, returned, results, gets, entry_body, inner) ==
    [exc |-> e, returned |-> returned, results |-> results, gets |-> gets,
     entry_body |-> entry_body, inner |-> inner]
NoInner == [called |-> "", exc |-> NoExc, returned |-> << >>]
\* No entry_body (nothing was fetched).
NoBody == [type |-> "None", keys |-> {}, raw |-> None]

\* The abstract handlers of CatalogueChangeMessager.
AbstractOutcomes(cat_path) ==
    {Outcome(e, << >>, << >>, 0, NoBody, NoInner) : e \in HandlerExceptions}
        \cup {Outcome(NoExc, r, << >>, 0, NoBody, NoInner) : r \in HandlerReturns(cat_path)}

\* ---------------------------------- CatalogueChangeBodyMessager.process_update
NoSuchKey == ClientError(404, "NoSuchKey")

\* Contents of input objects: not JSON, a JSON list, a JSON object without
\* and one with a stac_version field.
InputBodies == {"notjson", "[1]", "{not: stac}", "{stac_version: 1.0.0}"}

\* json.loads(entry_body) inside try/except ValueError: the parsed value, or
\* the raw content when it is not JSON.
json_loads(raw) ==
    IF raw = "[1]" THEN [type |-> "list", keys |-> {}, raw |-> raw]
    ELSE IF raw = "{not: stac}" THEN [type |-> "dict", keys |-> {"not"}, raw |-> raw]
    ELSE IF raw = "{stac_version: 1.0.0}"
         THEN [type |-> "dict", keys |-> {"stac_version"}, raw |-> raw]
    ELSE [type |-> "bytes", keys |-> {}, raw |-> raw]

\* What one get_object call answers: an error or a body.
GetResult(e, body) == [exc |-> e, body |-> body]
\* The answers to four successive get_object calls for one key: "no such
\* key" n times, then a body or another error every time.
GetResults ==
    {[i \in 1..4 |-> IF i <= n THEN GetResult(NoSuchKey, None) ELSE r] :
        n \in 0..4,
        r \in {GetResult(NoExc, b) : b \in InputBodies}
                \cup {GetResult(e, None) : e \in {AccessDenied, ConnectTimeoutError}}}

\* Mutant: "not found" is given up on at once.
get_object_no_retry(results, retries) ==
    [exc |-> results[retries + 1].exc, body |-> results[retries + 1].body, gets |-> retries + 1]

\* Mutant: one retry fewer.
RECURSIVE get_object_two_retries(_, _)
get_object_two_retries(results, retries) ==
    LET r == results[retries + 1]
    IN  IF r.exc.cls = "ClientError" /\ r.exc.code = "NoSuchKey" /\ retries < 2
        THEN get_object_two_retries(results, retries + 1)
        ELSE [exc |-> r.exc, body |-> r.body, gets |-> retries + 1]

\* The get_object call of process_update with its recursion on NoSuchKey.
RECURSIVE get_object_retrying(_, _)
get_object_retrying(results, retries) ==
    LET r == results[retries + 1]
    IN  IF r.exc.cls = "ClientError" /\ r.exc.code = "NoSuchKey" /\ retries < 3
        THEN get_object_retrying(results, retries + 1)
        ELSE [exc |-> r.exc, body |-> r.body, gets |-> retries + 1]

\* What the abstract process_update_body / process_update_stac may do.
InnerOutcomes(method, cat_path) ==
    {[called |-> method, exc |-> NoExc,
      returned |-> <<OutputFileAction(None, "new", cat_path)>>],
     [called |-> method, exc |-> ValueError, returned |-> << >>]}

\* Mutant: every JSON object is taken for STAC.
process_update_body_any_dict(cls, entry_body, inner) ==
    IF cls = "CatalogueSTACChangeMessager"
    THEN IF entry_body.type # "dict" THEN NoInner ELSE inner
    ELSE inner

\* process_update_body: abstract in CatalogueChangeBodyMessager (it does
\* what `inner` says), the STAC filter in CatalogueSTACChangeMessager.
\* The result is what the abstract method reached did, NoInner if none was.
process_update_body(cls, entry_body, inner) ==
    IF cls = "CatalogueSTACChangeMessager"
    THEN IF entry_body.type # "dict" \/ "stac_version" \notin entry_body.keys
         THEN NoInner
         ELSE inner
    ELSE inner

\* CatalogueChangeBodyMessager.process_update
process_update(cls, results, inner) ==
    LET get_result == get_object_retrying(results, 0)
    IN  IF get_result.exc # NoExc
        THEN Outcome(get_result.exc, << >>, results, get_result.gets, NoBody, NoInner)
        ELSE LET entry_body == json_loads(get_result.body)
                 reached == process_update_body(cls, entry_body, inner)
             IN  Outcome(reached.exc, reached.returned, results, get_result.gets,
                         entry_body, reached)

\* The classes whose process_update fetches the body.
BodyMessagers == {"CatalogueChangeBodyMessager", "CatalogueSTACChangeMessager"}
CatalogueChangeMessagers == {"CatalogueChangeMessager"} \cup BodyMessagers

\* The method of class cls that receives the body.
inner_method(cls) ==
    IF cls = "CatalogueSTACChangeMessager" THEN "process_update_stac"
    ELSE "process_update_body"

\* Everything a handler call of a messager of class cls may do.
handler_outcomes(cls, handler, cat_path) ==
    IF cls \in BodyMessagers /\ handler = "process_update"
    THEN {process_update(cls, results, inner) :
            results \in GetResults, inner \in InnerOutcomes(inner_method(cls), cat_path)}
    ELSE AbstractOutcomes(cat_path)

\* Mutant: TemporaryFailure is not told apart from other exceptions.
key_failure_action_no_temporary(key, e) ==
    IF IsBotoError(e)
    THEN FailureAction(key, ~ _is_boto_error_temporary(e))
    ELSE FailureAction(key, ~ is_temporary_error(e))

\* The three except clauses around the handler call.
key_failure_action(key, e) ==
    IF IsBotoError(e)
    THEN FailureAction(key, ~ _is_boto_error_temporary(e))
    ELSE IF e.cls = "TemporaryFailure"
    THEN FailureAction(key, FALSE)
    ELSE FailureAction(key, ~ is_temporary_error(e))

\* deleted_keys go to process_delete, added_keys and updated_keys to process_update.
handler_for(change_type) ==
    IF change_type = "deleted_keys" THEN "process_delete" ELSE "process_update"

InitCCM ==
    /\ msg = NoEnvelope
    /\ pc = "idle"
    /\ messager = "CatalogueChangeMessager"
    /\ input_change_msg = NoEnvelope
    /\ pos = 0
    /\ calls = << >>
    /\ actions = << >>
    /\ idx = 0
    /\ cat_changes = EmptyChanges
    /\ failures = EmptyFailures
    /\ store = EmptyStore
    /\ published = << >>
    /\ outcome = ""
    /\ raised = NotRaised
    /\ last = NoLast
    /\ tstate = IdleThreads
    /\ NewRunner

\* generate_harvest_schema: the fields every catalogue change message must have.
harvest_required == {"bucket_name", "source", "target"}

\* The three key lists of a catalogue change message, and what stands for
\* a list the message does not have (.get returns None for it).
key_list_fields == {"added_keys", "updated_keys", "deleted_keys"}
NoList == <<<<None>>>>

\* Mutant: the schema requires the three key lists as well.
validate_key_lists_required(data_dict) ==
    /\ \A f \in harvest_required : data_dict[f] # None
    /\ \A f \in key_list_fields : data_dict[f] # NoList

\* Mutant: only bucket_name is required.
validate_only_bucket(data_dict) == data_dict["bucket_name"] # None

\* jsonschema.validate(data_dict, harvest_schema); a field the message lacks
\* reads as None.
validate(data_dict) == \A f \in harvest_required : data_dict[f] # None

\* get_message_data(msg, schema): what it raises (NoExc when it returns).
get_message_data(data_dict) == IF validate(data_dict) THEN NoExc ELSE ValidationError

\* Messages lacking one required field, and all messages a consumer may get.
InvalidEnvelopes == {[env EXCEPT ![f] = None] : env \in Envelopes, f \in harvest_required}
Messages == Envelopes \cup InvalidEnvelopes

\* The messages given to the body-fetching messagers: at most one key in
\* each of the three lists and at most MaxKeys keys altogether.
BodyMessages ==
    {Envelope(t[1], t[2], t[3]) :
        t \in {lists \in {<< >>, <<<<"s", "/", "a">>>>}
                           \X {<< >>, <<<<"s", "/", "a", "/", "b">>>>}
                           \X {<< >>, <<<<"s", "/", "a">>>>} :
                  Len(lists[1]) + Len(lists[2]) + Len(lists[3]) <= MaxKeys}}

\* The messages a messager of class cls is given.
MessagesOf(cls) == IF cls \in BodyMessagers THEN BodyMessages ELSE Messages

\* The first lines of process_msg: the message is decoded, validated and
\* kept in self.input_change_msg.
DecodeFrom(messages) ==
    /\ pc = "process_msg"
    /\ messager \in CatalogueChangeMessagers
    /\ \E m \in messages :
          /\ msg' = m
          /\ IF get_message_data(m) # NoExc
             THEN /\ Raise(get_message_data(m), "process_msg", failures)
                  /\ UNCHANGED input_change_msg
             ELSE /\ input_change_msg' = m
                  /\ failures' = failures
                  /\ IF keys_in_order(m) = << >>
                     THEN Proceed(<< >>, 0, EmptyChanges)
                     ELSE pc' = "keys" /\ outcome' = "" /\ raised' = NotRaised
    /\ UNCHANGED <<threadVars, runnerVars, messager, pos, calls, actions, idx, cat_changes,
                   store, published, last>>

DecodeEnvelope == DecodeFrom(MessagesOf(messager))

\* One iteration of the loops over the keys: split, dispatch, catch.
ProcessKey ==
    /\ pc = "keys"
    /\ pos < Len(keys_in_order(input_change_msg))
    /\ LET entry == keys_in_order(input_change_msg)[pos + 1]
           parts == split1(entry.key)
       IN  IF input_change_msg[entry.change_type] = NoList
           THEN \* the for statement raises TypeError: None is not iterable
                /\ Raise(TypeError, "process_msg", failures)
                /\ UNCHANGED <<pos, calls, actions, cat_changes>>
           ELSE IF Len(parts) < 2
           THEN \* the unpacking raises ValueError outside the try block
                /\ Raise(ValueError, "process_msg", failures)
                /\ UNCHANGED <<pos, calls, actions, cat_changes>>
           ELSE LET cat_path == parts[2]
                    handler == handler_for(entry.change_type)
                IN  \E o \in handler_outcomes(messager, handler, cat_path) :
                       LET all_actions ==
                               IF o.exc = NoExc THEN actions \o o.returned
                               ELSE Append(actions, key_failure_action(entry.key, o.exc))
                       IN  /\ calls' = Append(calls,
                                 [handler |-> handler, key |-> entry.key,
                                  cat_path |-> cat_path, exc |-> o.exc,
                                  returned |-> o.returned, results |-> o.results,
                                  gets |-> o.gets, entry_body |-> o.entry_body,
                                  inner |-> o.inner])
                           /\ actions' = all_actions
                           /\ pos' = pos + 1
                           /\ cat_changes' = EmptyChanges
                           /\ failures' = failures
                           /\ IF pos + 1 < Len(keys_in_order(input_change_msg))
                              THEN pc' = "keys" /\ outcome' = "" /\ raised' = NotRaised
                              ELSE Proceed(all_actions, 0, EmptyChanges)
    /\ UNCHANGED <<threadVars, runnerVars, msg, messager, input_change_msg, idx, store,
                   published, last>>

\* The store faults met while the actions of a catalogue change message run:
\* one store error and one error that is not a store error.
RunActionCCM == RunAction({ConnectTimeoutError, AttributeError})

NextCCM ==
    \/ StartConsume
    \/ DecodeEnvelope
    \/ ProcessKey
    \/ RunActionCCM
    \/ Publish

SpecCCM == InitCCM /\ [][NextCCM]_vars

\* ---------------------------------------- messages lacking a key list
\* Messages with bucket_name, source and target but without one of the
\* three key lists.
IncompleteEnvelopes == {[env EXCEPT ![f] = NoList] : env \in Envelopes, f \in key_list_fields}
DecodeIncomplete == DecodeFrom(IncompleteEnvelopes)

NextIncomplete ==
    \/ FirstDelivery
    \/ DecodeEnvelope
    \/ DecodeIncomplete
    \/ ProcessKey
    \/ RunActionCCM
    \/ Publish

SpecIncomplete == InitCCM /\ [][NextIncomplete]_vars

\* ------------- CatalogueChangeBodyMessager and CatalogueSTACChangeMessager
InitBody ==
    /\ msg = NoEnvelope
    /\ pc = "idle"
    /\ messager \in BodyMessagers
    /\ input_change_msg = NoEnvelope
    /\ pos = 0
    /\ calls = << >>
    /\ actions = << >>
    /\ idx = 0
    /\ cat_changes = EmptyChanges
    /\ failures = EmptyFailures
    /\ store = EmptyStore
    /\ published = << >>
    /\ outcome = ""
    /\ raised = NotRaised
    /\ last = NoLast
    /\ tstate = IdleThreads
    /\ NewRunner

\* The output store answers without error while the actions run.
RunActionBody == RunAction({})

NextBody ==
    \/ StartConsume
    \/ DecodeEnvelope
    \/ ProcessKey
    \/ RunActionBody
    \/ Publish

SpecBody == InitBody /\ [][NextBody]_vars

\* ================================ concurrent consume calls on one messager
\* Runner._create_subscriptions registers `threads` consumers with one and the
\* same messager; their listeners run consume concurrently, each for the
\* message it received.  The store and the producer answer without error.
\* The messages thread t may receive: one key, added or deleted, in a message
\* whose id, workspace, source and target are its own.
MessageOf(t, a, d) ==
    [id |-> <<"m1", "m2">>[t], workspace |-> <<"ws1", "ws2">>[t],
     bucket_name |-> "testbucket-in",
     source |-> <<"src1", "src2">>[t], target |-> <<"tgt1", "tgt2">>[t],
     added_keys |-> a, updated_keys |-> << >>, deleted_keys |-> d]
ThreadMessages(t) ==
    {MessageOf(t, <<k>>, << >>) : k \in WellFormedKeys}
        \cup {MessageOf(t, << >>, <<k>>) : k \in WellFormedKeys}

\* The handlers of the subclass: each returns one OutputFileAction with a
\* payload for the catalogue path.
TestCatalogueChangeMessager(handler, cat_path) == <<OutputFileAction(None, "new", cat_path)>>

\* The two loops of process_msg over the first n keys of an envelope.
RECURSIVE process_msg_actions(_, _)
process_msg_actions(entries, n) ==
    IF n = 0 THEN << >>
    ELSE process_msg_actions(entries, n - 1)
            \o TestCatalogueChangeMessager(handler_for(entries[n].change_type),
                                           split1(entries[n].key)[2])

InitThreads ==
    /\ msg = NoEnvelope
    /\ pc = "idle"
    /\ messager = "CatalogueChangeMessager"
    /\ input_change_msg = NoEnvelope
    /\ pos = 0
    /\ calls = << >>
    /\ actions = << >>
    /\ idx = 0
    /\ cat_changes = EmptyChanges
    /\ failures = EmptyFailures
    /\ store = EmptyStore
    /\ published = << >>
    /\ outcome = ""
    /\ raised = NotRaised
    /\ last = NoLast
    /\ tstate = IdleThreads
    /\ NewRunner

\* The variables of the single consume call of Spec and SpecCCM.
callVars == <<msg, pc, messager, pos, calls, actions, idx, cat_changes, failures,
              outcome, raised, last>>

\* The listener of thread t calls consume with the message it received.
T_Consume(t) ==
    /\ tstate[t].pc = "idle"
    /\ \E m \in ThreadMessages(t) :
          tstate' = [tstate EXCEPT ![t] = [NoCall EXCEPT !.pc = "decode", !.msg = m]]
    /\ UNCHANGED <<callVars, runnerVars, input_change_msg, store, published>>

\* self.input_change_msg = get_message_data(msg, harvest_schema)
T_Decode(t) ==
    /\ tstate[t].pc = "decode"
    /\ get_message_data(tstate[t].msg) = NoExc
    /\ input_change_msg' = tstate[t].msg
    /\ tstate' = [tstate EXCEPT ![t].pc = "local"]
    /\ UNCHANGED <<callVars, runnerVars, store, published>>

\* input_change_msg = self.input_change_msg
T_Local(t) ==
    /\ tstate[t].pc = "local"
    /\ tstate' = [tstate EXCEPT ![t].local = input_change_msg, ![t].pc = "keys"]
    /\ UNCHANGED <<callVars, runnerVars, input_change_msg, store, published>>

\* The loops over the keys of the local envelope; process_msg returns.
T_Keys(t) ==
    /\ tstate[t].pc = "keys"
    /\ LET entries == keys_in_order(tstate[t].local)
           as == process_msg_actions(entries, Len(entries))
       IN  tstate' = [tstate EXCEPT ![t].actions = as,
                                    ![t].pc = after_actions(as, 0, EmptyChanges)]
    /\ UNCHANGED <<callVars, runnerVars, input_change_msg, store, published>>

\* One iteration of the loop over the actions.
T_RunAction(t) ==
    /\ tstate[t].pc = "run_actions"
    /\ LET c == tstate[t]
           r == _runaction(c.actions[c.idx + 1], store, c.cat_changes, c.failures, NoExc, NoExc)
       IN  /\ store' = r.store
           /\ tstate' = [tstate EXCEPT ![t].cat_changes = r.cat_changes,
                                        ![t].failures = r.failures,
                                        ![t].idx = c.idx + 1,
                                        ![t].pc = after_actions(c.actions, c.idx + 1,
                                                                r.cat_changes)]
    /\ UNCHANGED <<callVars, runnerVars, input_change_msg, published>>

\* The notification is built from gen_empty_catalogue_message and sent.
T_Publish(t) ==
    /\ tstate[t].pc = "publish"
    /\ LET change_message ==
               gen_catalogue_message(empty_catalogue_message, tstate[t].cat_changes)
       IN  /\ published' = Append(published, change_message)
           /\ tstate' = [tstate EXCEPT ![t].sent = <<change_message>>, ![t].pc = "done"]
    /\ UNCHANGED <<callVars, runnerVars, input_change_msg, store>>

ThreadConsume == \E t \in Threads : T_Consume(t)
ThreadDecode == \E t \in Threads : T_Decode(t)
ThreadLocal == \E t \in Threads : T_Local(t)
ThreadKeys == \E t \in Threads : T_Keys(t)
ThreadRunAction == \E t \in Threads : T_RunAction(t)
ThreadPublish == \E t \in Threads : T_Publish(t)

NextThreads ==
    \/ ThreadConsume
    \/ ThreadDecode
    \/ ThreadLocal
    \/ ThreadKeys
    \/ ThreadRunAction
    \/ ThreadPublish

SpecThreads == InitThreads /\ [][NextThreads]_vars

\* ================================================================= Runner
DEBUG_TOPIC == "eodhp-utils-debugging"
\* seconds
SUSPEND_TIME == 5
subscription_name == "test-subscription"

\* Times are held in milliseconds: time.time() and _suspended_until are
\* seconds as floats in the code, publish_timestamp() is milliseconds.
Milliseconds(seconds) == seconds * 1000
\* time.sleep(SUSPEND_TIME / 2); the clock advances in steps of this length.
Quantum == Milliseconds(SUSPEND_TIME) \div 2

\* Runner.messagers: the topics with a messager.
messagers == {"test-topic"}
\* The consumer run() subscribes to the debug topic.
takeover_consumer == "takeover consumer"

\* A message as _listener sees it: the topic name as its "/"-separated
\* parts, the subscription a takeover broadcast names (None if it names
\* none), and the publish time.
RunnerMsg(topic_name, data, publish_timestamp) ==
    [topic_name |-> topic_name, data |-> data, publish_timestamp |-> publish_timestamp]

\* Publish times of the broadcasts handled at time t: just published, one
\* sleep or two sleeps old, or ahead of the local clock.
PublishTimes(t) == {p \in {t + Quantum, t, t - Quantum, t - 2 * Quantum} : p >= 0}
TakeoverMsgs(t) ==
    {RunnerMsg(<<"x", DEBUG_TOPIC>>, sub, p) :
        sub \in {subscription_name, "other-subscription", None}, p \in PublishTimes(t)}
MessagerMsgs(t) == {RunnerMsg(<<"x", topic>>, None, t) : topic \in messagers}

\* What messager.consume does for the Runner: it returns a Failures, or
\* lets through an exception that is not an Exception.
KeyboardInterrupt == Exc("KeyboardInterrupt", 0, "")
ConsumeResults ==
    {Failures(kp, kt, p, t) :
        kp \in {<< >>, <<<<"s", "/", "a">>>>}, kt \in {<< >>, <<<<"s", "/", "a">>>>},
        p \in BOOLEAN, t \in BOOLEAN}

\* msg.topic_name().split("/")[-1]
topic_of(m) == m.topic_name[Len(m.topic_name)]

\* Mutant: the debug topic is not told apart.
_listener_no_debug_topic(mode, m) == "_process_messager_msg"

\* _listener: which method handles the message.
_listener(mode, m) ==
    IF ~ mode /\ topic_of(m) = DEBUG_TOPIC
    THEN "_process_takeover"
    ELSE "_process_messager_msg"

\* Mutant: only the whole-message flag counts.
any_temporary_flag_only(f) == f.temporary

\* Failures.any_temporary
any_temporary(f) == f.temporary \/ f.key_temporary # << >>

Call(on, call) == [on |-> on, call |-> call]

\* The call _process_messager_msg makes on the consumer after consume.
settle(consumer, f) ==
    IF any_temporary(f)
    THEN Call(consumer, "negative_acknowledge")
    ELSE Call(consumer, "acknowledge")

\* Mutant: any broadcast naming a subscription suspends.
names_any_subscription(m) == m.data # None

\* data_dict.get("suspend_subscription") == self.subscription_name
names_own_subscription(m) == m.data = subscription_name

Max(a, b) == IF a >= b THEN a ELSE b

\* Mutant: the deadline is overwritten, not extended.
extended_deadline_overwrite(until, m) == m.publish_timestamp + Milliseconds(SUSPEND_TIME)

\* max(self._suspended_until, msg.publish_timestamp() / 1000.0 + SUSPEND_TIME)
extended_deadline(until, m) == Max(until, m.publish_timestamp + Milliseconds(SUSPEND_TIME))

\* Mutant: the suspension ends at the deadline, not after it.
suspension_over_at_deadline(until, t) == until # 0 /\ until <= t

\* Mutant: the main loop does not test for "not suspended".
suspension_over_no_zero_test(until, t) == until < t

\* The test of the main loop before _end_takeover.
suspension_over(until, t) == until # 0 /\ until < t

\* One call of `call` on every owned consumer, in list order.
on_all_consumers(call) ==
    [i \in 1..Len(_messager_consumers) |-> Call(_messager_consumers[i], call)]

\* The variables of the messagers.
messagerVars == <<callVars, input_change_msg, store, published, threadVars>>

InitRunner ==
    /\ msg = NoEnvelope
    /\ pc = "idle"
    /\ messager = "Messager"
    /\ input_change_msg = NoEnvelope
    /\ pos = 0
    /\ calls = << >>
    /\ actions = << >>
    /\ idx = 0
    /\ cat_changes = EmptyChanges
    /\ failures = EmptyFailures
    /\ store = EmptyStore
    /\ published = << >>
    /\ outcome = ""
    /\ raised = NotRaised
    /\ last = NoLast
    /\ tstate = IdleThreads
    /\ takeover_mode \in BOOLEAN
    /\ run_arg \in 0..MaxLoops
    /\ max_loops = run_arg
    /\ running = TRUE
    /\ _suspended_until = 0
    /\ now = 0
    /\ wake = 0
    /\ listener_paused = [c \in Range(_messager_consumers) |-> FALSE]
    /\ rlast = NoRLast
    /\ context = EmptyContext
    /\ sent = << >>
    /\ latest_takeover = NoBroadcast
    /\ fa_call = NoMerge
    /\ previous = NoPrevious
    /\ NoSiblings

\* time.time() advances.
TimePasses ==
    /\ now < MaxClock * Quantum
    /\ now' = now + Quantum
    /\ UNCHANGED <<messagerVars, restVars, takeoverVars, takeover_mode, max_loops, running,
                   _suspended_until, wake, listener_paused, rlast, context>>

\* The history record of a handler that starts now.
Handling(handler, consumer, m) ==
    [NoRLast EXCEPT !.handler = handler, !.consumer = consumer, !.msg = m,
                    !.before = _suspended_until, !.pbefore = listener_paused, !.at = now,
                    !.ctx_before = context]

\* Mutant: the debug topic is subscribed to in both modes.
run_subscribes_always(mode) == {takeover_consumer}

\* The consumers run() subscribes before its loop: the debug topic
\* consumer, unless the Runner is in takeover mode.
run_subscribes(mode) == IF mode THEN {} ELSE {takeover_consumer}

\* The (consumer, message) pairs the client may hand to _listener now: a
\* message of a messager topic on an owned consumer whose listener is not
\* paused, or a broadcast on the debug topic consumer, which exists only
\* when the Runner is not in takeover mode.
Deliveries ==
    {<<consumer, m>> \in Range(_messager_consumers) \X MessagerMsgs(now) :
        ~ listener_paused[consumer]}
        \cup (run_subscribes(takeover_mode) \X TakeoverMsgs(now))

\* msg.properties(): the trace the publisher injected, or nothing.
MessageProperties == {None, "harvester_span"}

\* opentelemetry.propagate.extract: the context the properties carry, on
\* top of the current one.
extract(properties, current) ==
    IF properties = None THEN current ELSE Context(properties, None)

\* tracer.start_as_current_span(name): a child span of the active context.
start_as_current_span(name, current) == Context(current.trace, name)

\* Mutant: detach is skipped when the block raises (no finally).
context_after_no_finally(old_context, propagated, exc) ==
    IF exc THEN propagated ELSE old_context

\* The active context when _process_messager_msg is left: the with block
\* restores the attached context, and `finally: detach(old_context)` the
\* one before attach, whether or not the block raised.
context_after(old_context, propagated, exc) == old_context

\* _listener passes the message to _process_messager_msg.
ListenerMessager ==
    /\ \E <<consumer, m>> \in Deliveries :
          /\ _listener(takeover_mode, m) = "_process_messager_msg"
          /\ IF topic_of(m) \in messagers
             THEN \E properties \in MessageProperties :
                    LET propagated == extract(properties, context)
                        h == [Handling("_process_messager_msg", consumer, m) EXCEPT
                                 !.properties = properties,
                                 !.ctx_consume =
                                     start_as_current_span(subscription_name, propagated)]
                    IN  \/ \E f \in ConsumeResults, exc \in BOOLEAN :
                              \* consume returns; acknowledge / negative_acknowledge
                              \* returns or raises
                              /\ rlast' = [h EXCEPT
                                     !.calls = <<Call(topic_of(m), "consume"),
                                                 settle(consumer, f)>>,
                                     !.returned = TRUE,
                                     !.result = f,
                                     !.raised = IF exc THEN settle(consumer, f).call ELSE ""]
                              /\ context' = context_after(context, propagated, exc)
                        \/ \* consume raises
                           /\ rlast' = [h EXCEPT !.calls = <<Call(topic_of(m), "consume")>>,
                                                 !.raised = "consume"]
                           /\ context' = context_after(context, propagated, TRUE)
             ELSE \* self.messagers[topic_name] raises KeyError
                  /\ rlast' = [Handling("_process_messager_msg", consumer, m) EXCEPT
                                  !.raised = "messagers"]
                  /\ UNCHANGED context
    /\ UNCHANGED <<messagerVars, restVars, takeoverVars, takeover_mode, max_loops, running,
                   _suspended_until, now, wake, listener_paused>>

\* _listener passes the message to _process_takeover: the handler's effect
\* on the Runner.
ProcessTakeover ==
    /\ \E <<consumer, m>> \in Deliveries :
          /\ _listener(takeover_mode, m) = "_process_takeover"
          /\ IF names_own_subscription(m)
             THEN /\ _suspended_until' = extended_deadline(_suspended_until, m)
                  /\ listener_paused' = [c \in Range(_messager_consumers) |-> TRUE]
                  /\ rlast' = [Handling("_process_takeover", consumer, m) EXCEPT
                                  !.calls = <<Call(consumer, "acknowledge")>>
                                               \o on_all_consumers("pause_message_listener"),
                                  !.returned = TRUE]
             ELSE /\ rlast' = [Handling("_process_takeover", consumer, m) EXCEPT
                                  !.calls = <<Call(consumer, "acknowledge")>>,
                                  !.returned = TRUE]
                  /\ UNCHANGED <<_suspended_until, listener_paused>>
    /\ UNCHANGED <<messagerVars, restVars, run_arg, sent, mergeVars, takeover_mode, max_loops,
                   running,
                   now, wake, context>>

ListenerTakeover ==
    /\ ProcessTakeover
    /\ UNCHANGED latest_takeover

\* json.dumps({"suspend_subscription": self.subscription_name}), as the
\* message the broker publishes on the debug topic at time t.
takeover_msg(t) == RunnerMsg(<<DEBUG_TOPIC>>, subscription_name, t)

\* Mutant: the loop returns one iteration late.
run_returns_late(loops_left) == loops_left < 0

\* `if max_loops <= 0: return`, after the decrement.
run_returns(loops_left) == loops_left <= 0

\* One iteration of the main loop of Runner.run, up to its sleep or return.
RunLoop ==
    /\ running
    /\ now >= wake
    /\ LET over == suspension_over(_suspended_until, now)
           resumes == IF over THEN on_all_consumers("resume_message_listener") ELSE << >>
           sends == IF takeover_mode THEN <<Call("takeover_producer", "send")>> ELSE << >>
       IN  /\ _suspended_until' = IF over THEN 0 ELSE _suspended_until
           /\ listener_paused' = IF over THEN [c \in Range(_messager_consumers) |-> FALSE]
                                  ELSE listener_paused
           /\ sent' = IF takeover_mode THEN Append(sent, takeover_msg(now)) ELSE sent
           /\ rlast' = [Handling("run", "", NoRunnerMsg) EXCEPT
                           !.calls = resumes \o sends, !.returned = TRUE]
    /\ IF max_loops # 0
       THEN /\ max_loops' = max_loops - 1
            /\ running' = ~ run_returns(max_loops - 1)
       ELSE UNCHANGED <<max_loops, running>>
    /\ wake' = now + Quantum
    /\ UNCHANGED <<messagerVars, restVars, takeover_mode, run_arg, latest_takeover, mergeVars, now,
                   context>>

NextRunner ==
    \/ TimePasses
    \/ ListenerMessager
    \/ ListenerTakeover
    \/ RunLoop

SpecRunner == InitRunner /\ [][NextRunner]_vars

\* ---------------------------------------------------- a suspended Runner
\* A Runner not in takeover mode that is sent takeover broadcasts, with the
\* last broadcast naming its subscription kept as history.
InitSuspended ==
    /\ InitRunner
    /\ takeover_mode = FALSE

\* _listener passes a broadcast to _process_takeover.
TakeoverHandled ==
    /\ ProcessTakeover
    /\ latest_takeover' =
          IF names_own_subscription(rlast'.msg)
          THEN [at |-> now, publish_timestamp |-> rlast'.msg.publish_timestamp,
                further |-> _suspended_until # 0 /\ now <= _suspended_until]
          ELSE latest_takeover

NextSuspended ==
    \/ TimePasses
    \/ TakeoverHandled
    \/ RunLoop

SpecSuspended == InitSuspended /\ [][NextSuspended]_vars

\* ===================================================== takeover protocol
\* A Runner in takeover mode (the Runner of the variables above) and the
\* Runners not in takeover mode that share its subscription, each the
\* consumer of the same broker subscriptions.

\* The message_listener of the subscriptions a Runner makes:
\* _create_subscriptions passes self._listener for every messager topic,
\* run() passes none for the debug topic.
messager_message_listener == "_listener"
debug_message_listener == None

\* The runner in takeover mode, in the dispatch history.
TakeoverRunner == 0

\* Is the takeover being asserted: a broadcast is out, every broadcast has
\* been delivered and the next one is not overdue.
TakeoverAsserted ==
    /\ sent # << >>
    /\ delivered = Len(sent)
    /\ running
    /\ now <= wake

InitSiblings ==
    /\ msg = NoEnvelope
    /\ pc = "idle"
    /\ messager = "Messager"
    /\ input_change_msg = NoEnvelope
    /\ pos = 0
    /\ calls = << >>
    /\ actions = << >>
    /\ idx = 0
    /\ cat_changes = EmptyChanges
    /\ failures = EmptyFailures
    /\ store = EmptyStore
    /\ published = << >>
    /\ outcome = ""
    /\ raised = NotRaised
    /\ last = NoLast
    /\ tstate = IdleThreads
    /\ takeover_mode = TRUE
    /\ run_arg = 0
    /\ max_loops = run_arg
    /\ running = TRUE
    /\ _suspended_until = 0
    /\ now = 0
    /\ wake = 0
    /\ listener_paused = [c \in Range(_messager_consumers) |-> FALSE]
    /\ rlast = NoRLast
    /\ context = EmptyContext
    /\ sent = << >>
    /\ latest_takeover = NoBroadcast
    /\ fa_call = NoMerge
    /\ previous = NoPrevious
    /\ NoSiblings

\* What a sibling does with a message its debug topic consumer is given:
\* with a message listener the client calls it (_listener, and from there
\* _process_takeover); without one the message waits in the consumer for a
\* receive() call, which the Runner never makes.
sibling_receives(sib, m) ==
    IF debug_message_listener = None
    THEN [sib EXCEPT !.received = Append(@, m)]
    ELSE IF _listener(FALSE, m) = "_process_takeover" /\ names_own_subscription(m)
         THEN [sib EXCEPT !._suspended_until = extended_deadline(@, m), !.paused = TRUE]
         ELSE sib

\* The broker delivers the next broadcast. The siblings subscribe with the
\* same subscription name, <subscription_name>-takeover, and
\* ConsumerType.Shared: one of their consumers gets the message.
BrokerDelivers ==
    /\ delivered < Len(sent)
    /\ \E i \in Siblings :
          siblings' = [siblings EXCEPT ![i] = sibling_receives(@, sent[delivered + 1])]
    /\ delivered' = delivered + 1
    /\ UNCHANGED <<messagerVars, takeoverVars, takeover_mode, max_loops, running,
                   _suspended_until, now, wake, listener_paused, rlast, context, dispatched,
                   gr, cc_call, race>>

\* A message of a messager topic reaches a Runner of the subscription whose
\* listeners are not paused, and _listener passes it to the messager.
Dispatched(runner) ==
    Append(dispatched, [runner |-> runner, asserted |-> TakeoverAsserted])

SiblingDispatch ==
    /\ Len(dispatched) < MaxDispatch
    /\ \E i \in Siblings :
          /\ ~ siblings[i].paused
          /\ dispatched' = Dispatched(i)
    /\ UNCHANGED <<messagerVars, takeoverVars, takeover_mode, max_loops, running,
                   _suspended_until, now, wake, listener_paused, rlast, context, siblings, delivered,
                   gr, cc_call, race>>

TakeoverDispatch ==
    /\ Len(dispatched) < MaxDispatch
    /\ \E c \in Range(_messager_consumers) : ~ listener_paused[c]
    /\ dispatched' = Dispatched(TakeoverRunner)
    /\ UNCHANGED <<messagerVars, takeoverVars, takeover_mode, max_loops, running,
                   _suspended_until, now, wake, listener_paused, rlast, context, siblings, delivered,
                   gr, cc_call, race>>

\* One iteration of the main loop of a sibling.
SiblingLoop ==
    /\ \E i \in Siblings :
          LET sib == siblings[i]
              over == suspension_over(sib._suspended_until, now)
          IN  /\ now >= sib.wake
              /\ siblings' = [siblings EXCEPT ![i] =
                    [sib EXCEPT !._suspended_until = IF over THEN 0 ELSE @,
                                !.paused = IF over THEN FALSE ELSE @,
                                !.wake = now + Quantum]]
    /\ UNCHANGED <<messagerVars, takeoverVars, takeover_mode, max_loops, running,
                   _suspended_until, now, wake, listener_paused, rlast, context, delivered, dispatched,
                   gr, cc_call, race>>

\* time.time() advances, for all the Runners.
TimePassesSiblings ==
    /\ now < MaxTakeoverClock * Quantum
    /\ TimePasses

NextSiblings ==
    \/ TimePassesSiblings
    \/ RunLoop
    \/ BrokerDelivers
    \/ SiblingDispatch
    \/ TakeoverDispatch
    \/ SiblingLoop

SpecSiblings == InitSiblings /\ [][NextSiblings]_vars

\* ======================================================== Runner threads
\* The dispatch threads running _process_takeover and the main loop running
\* _end_takeover, one statement at a time: they share _suspended_until and
\* the consumers without a lock.
InitRace ==
    /\ msg = NoEnvelope
    /\ pc = "idle"
    /\ messager = "Messager"
    /\ input_change_msg = NoEnvelope
    /\ pos = 0
    /\ calls = << >>
    /\ actions = << >>
    /\ idx = 0
    /\ cat_changes = EmptyChanges
    /\ failures = EmptyFailures
    /\ store = EmptyStore
    /\ published = << >>
    /\ outcome = ""
    /\ raised = NotRaised
    /\ last = NoLast
    /\ tstate = IdleThreads
    /\ NewRunner

raceUnchanged ==
    <<messagerVars, siblingVars, takeoverVars, takeover_mode, max_loops, running, rlast,
      context, gr, cc_call>>

\* _listener passes a broadcast to _process_takeover on dispatch thread t,
\* which acknowledges it and decodes it.
HandlerStarts(t) ==
    /\ race.handlers[t].pc = "idle"
    /\ race.started < MaxBroadcasts
    /\ \E <<consumer, m>> \in Deliveries :
          /\ _listener(takeover_mode, m) = "_process_takeover"
          /\ race' = [race EXCEPT
                !.started = @ + 1,
                !.handlers[t] = IF names_own_subscription(m)
                                THEN [pc |-> "read", msg |-> m, local |-> 0, i |-> 0]
                                ELSE IdleHandler]
    /\ UNCHANGED <<raceUnchanged, _suspended_until, listener_paused, now, wake>>

\* The first argument of max(): self._suspended_until is read.
HandlerReads(t) ==
    /\ race.handlers[t].pc = "read"
    /\ race' = [race EXCEPT !.handlers[t].pc = "write",
                            !.handlers[t].local = _suspended_until]
    /\ UNCHANGED <<raceUnchanged, _suspended_until, listener_paused, now, wake>>

\* self._suspended_until = max(<the value read>, publish time + SUSPEND_TIME)
HandlerWrites(t) ==
    /\ race.handlers[t].pc = "write"
    /\ LET h == race.handlers[t]
       IN  /\ _suspended_until' = extended_deadline(h.local, h.msg)
           /\ race' = [race EXCEPT
                 !.handlers[t].pc = "pause",
                 !.handlers[t].i = 1,
                 !.extended = @ \cup {h.msg.publish_timestamp + Milliseconds(SUSPEND_TIME)}]
    /\ UNCHANGED <<raceUnchanged, listener_paused, now, wake>>

\* The next consumer of the handler's for loop is paused.
HandlerPauses(t) ==
    /\ race.handlers[t].pc = "pause"
    /\ LET i == race.handlers[t].i
       IN  /\ listener_paused' = [listener_paused EXCEPT ![_messager_consumers[i]] = TRUE]
           /\ race' = [race EXCEPT
                 !.handlers[t] = IF i < Len(_messager_consumers)
                                 THEN [@ EXCEPT !.i = i + 1]
                                 ELSE IdleHandler]
    /\ UNCHANGED <<raceUnchanged, _suspended_until, now, wake>>

\* The main loop wakes and tests _suspended_until; it goes on to
\* _end_takeover or back to sleep.
LoopChecks ==
    /\ running
    /\ race.loop.pc = "sleep"
    /\ now >= wake
    /\ IF suspension_over(_suspended_until, now)
       THEN /\ race' = [race EXCEPT !.loop = [pc |-> "resume", i |-> 1]]
            /\ UNCHANGED wake
       ELSE /\ wake' = now + Quantum
            /\ UNCHANGED race
    /\ UNCHANGED <<raceUnchanged, _suspended_until, listener_paused, now>>

\* _end_takeover resumes the next consumer of its for loop.
LoopResumes ==
    /\ race.loop.pc = "resume"
    /\ LET i == race.loop.i
       IN  /\ listener_paused' = [listener_paused EXCEPT ![_messager_consumers[i]] = FALSE]
           /\ race' = [race EXCEPT
                 !.loop = IF i < Len(_messager_consumers)
                          THEN [pc |-> "resume", i |-> i + 1]
                          ELSE [pc |-> "reset", i |-> 0]]
    /\ UNCHANGED <<raceUnchanged, _suspended_until, now, wake>>

\* _end_takeover: self._suspended_until = 0; then the loop sleeps.
LoopResets ==
    /\ race.loop.pc = "reset"
    /\ _suspended_until' = 0
    /\ race' = [race EXCEPT !.loop = [pc |-> "sleep", i |-> 0], !.extended = {}]
    /\ wake' = now + Quantum
    /\ UNCHANGED <<raceUnchanged, listener_paused, now>>

\* time.time() advances while the threads run.
TimePassesRace ==
    /\ now < MaxClock * Quantum
    /\ now' = now + Quantum
    /\ UNCHANGED <<raceUnchanged, race, _suspended_until, listener_paused, wake>>

NextRace ==
    \/ \E t \in Threads : HandlerStarts(t)
    \/ \E t \in Threads : HandlerReads(t)
    \/ \E t \in Threads : HandlerWrites(t)
    \/ \E t \in Threads : HandlerPauses(t)
    \/ LoopChecks
    \/ LoopResumes
    \/ LoopResets
    \/ TimePassesRace

SpecRace == InitRace /\ [][NextRace]_vars

\* ======================================================= GeneratorRunner
\* Mutant: a last batch shorter than n is dropped.
RECURSIVE batched_drop_short(_, _)
batched_drop_short(inputs, n) ==
    IF Len(inputs) < n THEN << >>
    ELSE <<SubSeq(inputs, 1, n)>> \o batched_drop_short(SubSeq(inputs, n + 1, Len(inputs)), n)

\* itertools.batched(inputs, n)
RECURSIVE batched(_, _)
batched(inputs, n) ==
    IF inputs = << >> THEN << >>
    ELSE IF Len(inputs) <= n THEN <<inputs>>
    ELSE <<SubSeq(inputs, 1, n)>> \o batched(SubSeq(inputs, n + 1, Len(inputs)), n)

\* Mutant: the flags of the argument are forgotten.
Failures_add_own_flags(a, b) ==
    Failures(a.key_permanent \o b.key_permanent, a.key_temporary \o b.key_temporary,
             a.permanent, a.temporary)

\* Failures.add
Failures_add(a, b) ==
    Failures(a.key_permanent \o b.key_permanent, a.key_temporary \o b.key_temporary,
             a.permanent \/ b.permanent, a.temporary \/ b.temporary)

\* The methods of Messager.Failures.
Failures_methods == {"any_permanent", "any_temporary", "add"}

\* functools.reduce(function, results, initial)
RECURSIVE reduce(_, _)
reduce(results, initial) ==
    IF results = << >> THEN initial
    ELSE reduce(Tail(results), Failures_add(initial, Head(results)))

\* The last statements of GeneratorRunner.consume: the value returned, or
\* the exception looking up Messager.Failures.add_two raises.
consume_reduce(results) ==
    IF "add_two" \in Failures_methods
    THEN [raised |-> NoExc, returned |-> reduce(results, EmptyFailures)]
    ELSE [raised |-> AttributeError, returned |-> EmptyFailures]

\* What Messager.consume returns for a batch: no failure, or the flag its
\* except clauses set when process_msg raises.
BatchResults ==
    {EmptyFailures, Failures(<< >>, << >>, TRUE, FALSE), Failures(<< >>, << >>, FALSE, TRUE)}

\* The thread that called GeneratorRunner.consume.
MainThread == 0

\* range(length) as the input.
InputsOf(length) == [i \in 1..length |-> i - 1]

InitGenerator ==
    /\ msg = NoEnvelope
    /\ pc = "idle"
    /\ messager = "Messager"
    /\ input_change_msg = NoEnvelope
    /\ pos = 0
    /\ calls = << >>
    /\ actions = << >>
    /\ idx = 0
    /\ cat_changes = EmptyChanges
    /\ failures = EmptyFailures
    /\ store = EmptyStore
    /\ published = << >>
    /\ outcome = ""
    /\ raised = NotRaised
    /\ last = NoLast
    /\ tstate = IdleThreads
    /\ takeover_mode = FALSE
    /\ max_loops = 0
    /\ running = TRUE
    /\ _suspended_until = 0
    /\ now = 0
    /\ wake = 0
    /\ listener_paused = [c \in Range(_messager_consumers) |-> FALSE]
    /\ rlast = NoRLast
    /\ context = EmptyContext
    /\ run_arg = 0
    /\ sent = << >>
    /\ latest_takeover = NoBroadcast
    /\ fa_call = NoMerge
    /\ previous = NoPrevious
    /\ siblings = [i \in Siblings |-> NewSibling]
    /\ delivered = 0
    /\ dispatched = << >>
    /\ \E length \in 0..MaxInputs, batch_size \in 1..MaxBatch, threads \in 0..MaxThreads :
          gr = NewGeneratorRunner(InputsOf(length), batch_size, threads)
    /\ cc_call = NewChangesCall(EmptyChanges, EmptyChanges)
    /\ race = NoRace

\* The variables a CatalogueChanges call leaves alone, the messagers' apart.
runnerVarsButChanges ==
    <<siblingVars, takeoverVars, takeover_mode, max_loops, running,
      _suspended_until, now, wake, listener_paused, rlast, context, gr, race>>

\* The variables a GeneratorRunner.consume call leaves alone.
notGeneratorVars ==
    <<messagerVars, siblingVars, takeoverVars, takeover_mode, max_loops, running,
      _suspended_until, now, wake, listener_paused, rlast, context, cc_call, race>>

batched_inputs == batched(gr.inputs, gr.batch_size)

\* Executor.map submits the next batch. ImmediateExecutor.submit calls
\* messager.consume at once, on the calling thread; ThreadPoolExecutor.submit
\* puts the batch on the work queue and starts a worker thread unless one is
\* idle or max_workers are running.
Submit ==
    /\ gr.pc = "map"
    /\ gr.submitted < Len(batched_inputs)
    /\ LET k == gr.submitted + 1
       IN  IF gr.threads = 0
           THEN \E f \in BatchResults :
                   gr' = [gr EXCEPT !.submitted = k,
                                    !.taken = Append(@, k),
                                    !.messages_received = Append(@, batched_inputs[k]),
                                    !.thread_ids = @ \cup {MainThread},
                                    !.futures = Append(@, f),
                                    !.finished = @ \cup {k}]
           ELSE gr' = [gr EXCEPT !.submitted = k,
                                 !.work_queue = Append(@, k),
                                 !.futures = Append(@, EmptyFailures),
                                 !.idle_semaphore = IF @ > 0 THEN @ - 1 ELSE @,
                                 !.spawned = IF gr.idle_semaphore = 0 /\ @ < gr.threads
                                             THEN @ + 1 ELSE @]
    /\ UNCHANGED <<notGeneratorVars>>

\* Mutant: the newest work item is taken first.
work_queue_get_last(q) == q[Len(q)]

\* work_queue.get(): the oldest work item.
work_queue_get(q) == Head(q)

\* A worker thread takes a work item from the queue.
WorkerTakes ==
    /\ \E w \in 1..gr.spawned :
          /\ gr.workers[w].state = "idle"
          /\ gr.work_queue # << >>
          /\ LET k == work_queue_get(gr.work_queue)
             IN  gr' = [gr EXCEPT !.work_queue = SelectSeq(@, LAMBDA x : x # k),
                                  !.taken = Append(@, k),
                                  !.workers[w] = Worker("taken", k)]
    /\ UNCHANGED <<notGeneratorVars>>

\* The worker's messager.consume call enters process_msg.
WorkerEnters ==
    /\ \E w \in 1..gr.spawned :
          /\ gr.workers[w].state = "taken"
          /\ gr' = [gr EXCEPT
                       !.messages_received = Append(@, batched_inputs[gr.workers[w].batch]),
                       !.thread_ids = @ \cup {w},
                       !.workers[w].state = "running"]
    /\ UNCHANGED <<notGeneratorVars>>

\* The worker's messager.consume call returns; the worker becomes idle.
WorkerFinishes ==
    /\ \E w \in 1..gr.spawned, f \in BatchResults :
          /\ gr.workers[w].state = "running"
          /\ gr' = [gr EXCEPT !.futures[gr.workers[w].batch] = f,
                              !.finished = @ \cup {gr.workers[w].batch},
                              !.idle_semaphore = @ + 1,
                              !.workers[w] = Worker("idle", 0)]
    /\ UNCHANGED <<notGeneratorVars>>

\* Mutant: the executor is left without waiting for the work items.
Reduce_without_waiting ==
    /\ gr.pc = "map"
    /\ gr.submitted = Len(batched_inputs)
    /\ LET r == consume_reduce(gr.futures)
       IN  gr' = [gr EXCEPT !.pc = "done", !.raised = r.raised, !.returned = r.returned]
    /\ UNCHANGED <<notGeneratorVars>>

\* Every batch is submitted; the with block waits for the work items, and
\* consume ends with the reduce statement.
Reduce ==
    /\ gr.pc = "map"
    /\ gr.submitted = Len(batched_inputs)
    /\ gr.finished = 1..gr.submitted
    /\ LET r == consume_reduce(gr.futures)
       IN  gr' = [gr EXCEPT !.pc = "done", !.raised = r.raised, !.returned = r.returned]
    /\ UNCHANGED <<notGeneratorVars>>

NextGenerator ==
    \/ Submit
    \/ WorkerTakes
    \/ WorkerEnters
    \/ WorkerFinishes
    \/ Reduce

SpecGenerator == InitGenerator /\ [][NextGenerator]_vars

\* ====================================================== CatalogueChanges
\* Key lists of at most MaxChangeKeys keys.
ChangeKeyLists == SeqsUpTo({<<"a">>, <<"b">>}, MaxChangeKeys)
ChangesOperands ==
    {CatalogueChanges(a, u, d) : a \in ChangeKeyLists, u \in ChangeKeyLists, d \in ChangeKeyLists}

\* Reading attribute `name` of a dataclass instance: its value, or
\* AttributeError when the class has no such field.
getattr(obj, name) ==
    IF name \in DOMAIN obj
    THEN [raised |-> NoExc, value |-> obj[name]]
    ELSE [raised |-> AttributeError, value |-> << >>]

\* CatalogueChanges.add
CatalogueChanges_add(self, other) ==
    LET changed == getattr(other, "changed")
    IN  IF changed.raised # NoExc
        THEN [raised |-> changed.raised, returned |-> EmptyChanges]
        ELSE [raised |-> NoExc,
              returned |-> CatalogueChanges(self.added \o other.added,
                                            self.updated \o changed.value,
                                            self.deleted \o other.deleted)]

InitChanges ==
    /\ msg = NoEnvelope
    /\ pc = "idle"
    /\ messager = "Messager"
    /\ input_change_msg = NoEnvelope
    /\ pos = 0
    /\ calls = << >>
    /\ actions = << >>
    /\ idx = 0
    /\ cat_changes = EmptyChanges
    /\ failures = EmptyFailures
    /\ store = EmptyStore
    /\ published = << >>
    /\ outcome = ""
    /\ raised = NotRaised
    /\ last = NoLast
    /\ tstate = IdleThreads
    /\ takeover_mode = FALSE
    /\ max_loops = 0
    /\ running = TRUE
    /\ _suspended_until = 0
    /\ now = 0
    /\ wake = 0
    /\ listener_paused = [c \in Range(_messager_consumers) |-> FALSE]
    /\ rlast = NoRLast
    /\ context = EmptyContext
    /\ run_arg = 0
    /\ sent = << >>
    /\ latest_takeover = NoBroadcast
    /\ fa_call = NoMerge
    /\ previous = NoPrevious
    /\ siblings = [i \in Siblings |-> NewSibling]
    /\ delivered = 0
    /\ dispatched = << >>
    /\ gr = NewGeneratorRunner(<< >>, 1, 0)
    /\ \E self \in ChangesOperands, other \in ChangesOperands :
          cc_call = NewChangesCall(self, other)
    /\ race = NoRace

\* self.add(other)
ChangesAdd ==
    /\ ~ cc_call.add_called
    /\ LET r == CatalogueChanges_add(cc_call.self, cc_call.other)
       IN  cc_call' = [cc_call EXCEPT !.add_called = TRUE, !.raised = r.raised,
                                      !.returned = r.returned]
    /\ UNCHANGED <<messagerVars, runnerVarsButChanges>>

\* bool(self)
ChangesBool ==
    /\ ~ cc_call.bool_called
    /\ cc_call' = [cc_call EXCEPT !.bool_called = TRUE,
                                  !.truthy = CatalogueChanges_bool(cc_call.self)]
    /\ UNCHANGED <<messagerVars, runnerVarsButChanges>>

NextChanges ==
    \/ ChangesAdd
    \/ ChangesBool

SpecChanges == InitChanges /\ [][NextChanges]_vars

\* ========================================================== Failures.add
\* Failures values to merge: per-key lists of at most MaxChangeKeys keys and
\* at most one whole-message flag.
MergeOperands ==
    {Failures(kp, kt, p, t) :
        kp \in ChangeKeyLists, kt \in {<< >>, <<<<"b">>>>},
        p \in BOOLEAN, t \in BOOLEAN}

\* The receiver and the argument after self.add(f): `+` builds new lists and
\* the constructor a new object, neither operand is written to.
Failures_add_operands(a, b) == <<a, b>>

InitMerge ==
    /\ msg = NoEnvelope
    /\ pc = "idle"
    /\ messager = "Messager"
    /\ input_change_msg = NoEnvelope
    /\ pos = 0
    /\ calls = << >>
    /\ actions = << >>
    /\ idx = 0
    /\ cat_changes = EmptyChanges
    /\ failures = EmptyFailures
    /\ store = EmptyStore
    /\ published = << >>
    /\ outcome = ""
    /\ raised = NotRaised
    /\ last = NoLast
    /\ tstate = IdleThreads
    /\ takeover_mode = FALSE
    /\ max_loops = 0
    /\ running = TRUE
    /\ _suspended_until = 0
    /\ now = 0
    /\ wake = 0
    /\ listener_paused = [c \in Range(_messager_consumers) |-> FALSE]
    /\ rlast = NoRLast
    /\ context = EmptyContext
    /\ run_arg = 0
    /\ sent = << >>
    /\ latest_takeover = NoBroadcast
    /\ previous = NoPrevious
    /\ NoSiblings
    /\ \E a \in MergeOperands, b \in MergeOperands, c \in MergeOperands :
          fa_call = [NoMerge EXCEPT !.a = a, !.b = b, !.c = c, !.after = <<a, b, c>>]

\* a.add(b), b.add(a), a.add(b).add(c), a.add(b.add(c)), a.add(Failures())
\* and Failures().add(a), on the operands as the calls before left them.
FailuresAdd ==
    /\ ~ fa_call.called
    /\ LET a == fa_call.a
           b == fa_call.b
           c == fa_call.c
           ab == Failures_add(a, b)
           o1 == Failures_add_operands(a, b)
           ba == Failures_add(o1[2], o1[1])
           o2 == Failures_add_operands(o1[2], o1[1])
           ab_c == Failures_add(Failures_add(o2[2], o2[1]), c)
           bc == Failures_add(o2[1], c)
           a_bc == Failures_add(o2[2], bc)
       IN  fa_call' = [fa_call EXCEPT
                !.called = TRUE,
                !.ab = ab, !.ba = ba, !.ab_c = ab_c, !.a_bc = a_bc,
                !.a_empty = Failures_add(o2[2], EmptyFailures),
                !.empty_a = Failures_add(EmptyFailures, o2[2]),
                !.after = <<o2[2], o2[1], c>>]
    /\ UNCHANGED <<messagerVars, restVars, run_arg, sent, latest_takeover, previous,
                   takeover_mode, max_loops, running, _suspended_until, now, wake,
                   listener_paused, rlast, context>>

NextMerge == FailuresAdd

SpecMerge == InitMerge /\ [][NextMerge]_vars

\* =============================================================== claims
\* The output key and target bucket of the last executed action, written out
\* as the documentation of OutputFileAction and S3Action gives them.
LastKey ==
    IF last.action.type = "OutputFileAction"
    THEN cat_output_prefix \o last.action.cat_path
    ELSE last.action.key
LastBucket == IF last.action.bucket = None THEN output_bucket ELSE last.action.bucket
LastExisted == last.sbefore[<<LastBucket, LastKey>>] # None

\* C1: consume never propagates an exception: whatever process_msg, a store
\* call, gen_empty_catalogue_message, the encoding or the send raises, the
\* call ends by returning its Failures.
C1_ConsumeNeverRaises ==
    /\ outcome # "raised"
    /\ pc = "done" => outcome = "returned"
    /\ (pc = "done" /\ raised.stage # "") => (failures.permanent \/ failures.temporary)

C1_Witness ==
    /\ pc = "done"
    /\ outcome = "returned"
    /\ raised.stage = "encode"
    /\ failures.permanent

\* C2: if process_msg raises, no action runs and nothing is published, the
\* per-key lists are empty and exactly one whole-message flag is set:
\* temporary for TemporaryFailure, permanent for an exception that
\* is_temporary_error does not recognise.
C2_ProcessMsgRaises ==
    (pc = "done" /\ raised.stage = "process_msg") =>
        /\ idx = 0
        /\ ~ last.ran
        /\ published = << >>
        /\ failures.key_permanent = << >>
        /\ failures.key_temporary = << >>
        /\ failures.permanent # failures.temporary
        /\ raised.exc = TemporaryFailure => failures.temporary
        /\ (raised.exc # TemporaryFailure /\ ~ is_temporary_error(raised.exc))
              => failures.permanent

C2_Witness ==
    /\ pc = "done"
    /\ raised.stage = "process_msg"
    /\ raised.exc = TemporaryFailure
    /\ failures = Failures(<< >>, << >>, FALSE, TRUE)

\* C3: an OutputFileAction with a payload whose existence check answers puts
\* its key cat_output_prefix + cat_path at the end of `added` if nothing was
\* under the key in the target bucket, at the end of `updated` if something
\* was, never in `deleted` and never in both; and once the write has
\* succeeded the store holds the payload under the key.
C3_PayloadAddedOrUpdated ==
    (/\ last.ran
     /\ last.action.type = "OutputFileAction"
     /\ last.action.file_body # None
     /\ ~ last.head_failed) =>
        /\ cat_changes.deleted = last.before.deleted
        /\ ~ LastExisted =>
              /\ cat_changes.added = Append(last.before.added, LastKey)
              /\ cat_changes.updated = last.before.updated
        /\ LastExisted =>
              /\ cat_changes.updated = Append(last.before.updated, LastKey)
              /\ cat_changes.added = last.before.added
        /\ ~ last.write_failed => store[<<LastBucket, LastKey>>] = last.action.file_body

C3_Witness ==
    /\ last.ran
    /\ last.action.type = "OutputFileAction"
    /\ last.action.file_body # None
    /\ ~ last.head_failed
    /\ ~ last.write_failed
    /\ LastExisted
    /\ cat_changes.updated = <<LastKey>>
    /\ Len(cat_changes.added) = 1

\* C4: an OutputFileAction without a payload puts its key at the end of
\* `deleted` whether or not an object was under it, touches neither `added`
\* nor `updated`, and once the delete has gone through the store holds
\* nothing under the key.
C4_NoPayloadDeleted ==
    (/\ last.ran
     /\ last.action.type = "OutputFileAction"
     /\ last.action.file_body = None) =>
        /\ cat_changes.deleted = Append(last.before.deleted, LastKey)
        /\ cat_changes.added = last.before.added
        /\ cat_changes.updated = last.before.updated
        /\ ~ last.write_failed => store[<<LastBucket, LastKey>>] = None

C4_Witness ==
    /\ last.ran
    /\ last.action.type = "OutputFileAction"
    /\ last.action.file_body = None
    /\ ~ last.write_failed
    /\ ~ LastExisted
    /\ cat_changes.deleted = <<LastKey>>
    /\ store[<<LastBucket, LastKey>>] = None

\* Is `a` obtained from `b` by leaving elements out (order kept)?
RECURSIVE IsSubseq(_, _)
IsSubseq(a, b) ==
    IF a = << >> THEN TRUE
    ELSE IF b = << >> THEN FALSE
    ELSE IF Head(a) = Head(b) THEN IsSubseq(Tail(a), Tail(b))
    ELSE IsSubseq(a, Tail(b))

\* The output keys of the executed OutputFileActions with (without) a payload,
\* in the order of execution.
RECURSIVE ExecutedKeys(_, _, _)
ExecutedKeys(as, n, payload) ==
    IF n = 0 THEN << >>
    ELSE LET a == as[n]
             rest == ExecutedKeys(as, n - 1, payload)
         IN  IF a.type = "OutputFileAction" /\ ((a.file_body # None) = payload)
             THEN Append(rest, cat_output_prefix \o a.cat_path)
             ELSE rest

\* C5: within one consume call a notification is published at most once, only
\* after every action has been executed and only if the accumulated changes
\* are non-empty; when nothing raised, it is published exactly if they are
\* non-empty; and its three key lists are the accumulated lists, which hold
\* the keys in the order their actions were executed.
C5_NotificationIffChanges ==
    LET nonempty == \/ Len(cat_changes.added) > 0
                    \/ Len(cat_changes.updated) > 0
                    \/ Len(cat_changes.deleted) > 0
    IN  /\ Len(published) <= 1
        /\ published # << >> =>
              /\ pc = "done"
              /\ idx = Len(actions)
              /\ nonempty
              /\ published[1].added_keys = cat_changes.added
              /\ published[1].updated_keys = cat_changes.updated
              /\ published[1].deleted_keys = cat_changes.deleted
        /\ (pc = "done" /\ raised.stage = "") => (published # << >> <=> nonempty)
        /\ cat_changes.deleted = ExecutedKeys(actions, idx, FALSE)
        /\ IsSubseq(cat_changes.added, ExecutedKeys(actions, idx, TRUE))
        /\ IsSubseq(cat_changes.updated, ExecutedKeys(actions, idx, TRUE))

C5_Witness ==
    /\ pc = "done"
    /\ Len(published) = 1
    /\ Len(published[1].added_keys) = 2
    /\ published[1].added_keys[1] # published[1].added_keys[2]
    /\ published[1].added_keys = ExecutedKeys(actions, idx, TRUE)

\* C6: a key is recorded in the CatalogueChanges only if the store write or
\* delete of its OutputFileAction succeeded: an action whose put_object or
\* delete_object fails leaves the changes as they were.
C6_FailedWriteRecordsNoKey ==
    (last.ran /\ last.write_failed) => cat_changes = last.before

\* C7: an S3UploadAction leaves the CatalogueChanges alone and, when the store
\* call goes through, leaves the body (or nothing, for a delete) under its
\* key in its bucket, output_bucket by default; a call whose actions are only
\* S3UploadActions and FailureActions publishes nothing.
C7_UploadNoCatalogueChange ==
    /\ (last.ran /\ last.action.type = "S3UploadAction") =>
          /\ cat_changes = last.before
          /\ ~ last.write_failed =>
                store[<<LastBucket, last.action.key>>] = last.action.file_body
    /\ (\A i \in 1..Len(actions) : actions[i].type \in {"S3UploadAction", "FailureAction"}) =>
          /\ published = << >>
          /\ pc # "publish"
          /\ cat_changes = EmptyChanges

C7_Witness ==
    /\ pc = "done"
    /\ Len(actions) = 2
    /\ \A i \in 1..Len(actions) : actions[i].type = "S3UploadAction"
    /\ last.ran
    /\ last.action.bucket = None
    /\ ~ last.write_failed
    /\ store[<<output_bucket, last.action.key>>] = "new"
    /\ published = << >>

\* C8: a FailureAction leaves the store and the changes alone; without a key
\* it sets the permanent flag (permanent) or the temporary flag (not
\* permanent) and nothing else; with a key it appends the key to
\* key_permanent or key_temporary and leaves both flags as they were.
C8_FailureActionOnlyFailures ==
    (last.ran /\ last.action.type = "FailureAction" /\ raised.stage = "") =>
        LET a == last.action
            f == last.fbefore
        IN  /\ store = last.sbefore
            /\ cat_changes = last.before
            /\ a.key = NoKey =>
                  /\ failures.key_permanent = f.key_permanent
                  /\ failures.key_temporary = f.key_temporary
                  /\ failures.permanent = (f.permanent \/ a.permanent)
                  /\ failures.temporary = (f.temporary \/ ~ a.permanent)
            /\ a.key # NoKey =>
                  /\ failures.permanent = f.permanent
                  /\ failures.temporary = f.temporary
                  /\ failures.key_permanent =
                        IF a.permanent THEN Append(f.key_permanent, a.key) ELSE f.key_permanent
                  /\ failures.key_temporary =
                        IF a.permanent THEN f.key_temporary ELSE Append(f.key_temporary, a.key)

C8_Witness ==
    /\ last.ran
    /\ last.action.type = "FailureAction"
    /\ last.action.key # NoKey
    /\ last.action.permanent
    /\ failures.key_permanent = <<last.action.key>>
    /\ ~ failures.permanent
    /\ ~ failures.temporary

\* ------------------------------------------- claims on the per-key dispatch
HasSlash(key) == \E i \in 1..Len(key) : key[i] = "/"
AllWellFormed(env) ==
    \A i \in 1..Len(keys_in_order(env)) : HasSlash(keys_in_order(env)[i].key)

\* The keys of the first n handler calls that raised, those whose exception
\* is in TempSet when temp is TRUE and the others when it is FALSE.
RECURSIVE FailedKeys(_, _, _, _)
FailedKeys(cs, n, TempSet, temp) ==
    IF n = 0 THEN << >>
    ELSE LET c == cs[n]
             rest == FailedKeys(cs, n - 1, TempSet, temp)
         IN  IF c.exc # NoExc /\ ((c.exc \in TempSet) = temp)
             THEN Append(rest, c.key)
             ELSE rest

\* The actions the first n handler calls returned, concatenated.
RECURSIVE ReturnedActions(_, _)
ReturnedActions(cs, n) ==
    IF n = 0 THEN << >> ELSE ReturnedActions(cs, n - 1) \o cs[n].returned

IsKeyedFailure(a) == a.type = "FailureAction" /\ a.key # NoKey

\* The statement of C9 with TempSet as the exceptions reported as temporary:
\* when the handlers raise for some keys of a message and return for others,
\* the handler has been called once for every key in processing order, the
\* actions are the returned ones with a keyed FailureAction for each failing
\* key; unless an action raised an exception that is not a store error
\* (which ends the call at once), every action has been executed and the
\* per-key lists hold exactly the failing keys in processing order; and the
\* whole-message flags are false unless a returned action or the publish
\* failed.
C9_Statement(TempSet) ==
    (/\ pc = "done"
     /\ AllWellFormed(input_change_msg)
     /\ \E i \in 1..Len(calls) : calls[i].exc # NoExc
     /\ \E i \in 1..Len(calls) : calls[i].exc = NoExc) =>
        LET keys == keys_in_order(input_change_msg)
        IN  /\ Len(calls) = Len(keys)
            /\ \A i \in 1..Len(keys) :
                  /\ calls[i].key = keys[i].key
                  /\ calls[i].handler =
                        IF keys[i].change_type = "deleted_keys"
                        THEN "process_delete" ELSE "process_update"
            /\ raised.stage # "_runaction" =>
                  /\ failures.key_permanent = FailedKeys(calls, Len(calls), TempSet, FALSE)
                  /\ failures.key_temporary = FailedKeys(calls, Len(calls), TempSet, TRUE)
                  /\ idx = Len(actions)
            /\ SelectSeq(actions, LAMBDA a : ~ IsKeyedFailure(a))
                  = ReturnedActions(calls, Len(calls))
            /\ (/\ \A i \in 1..Len(actions) : actions[i].type = "FailureAction"
                                                 => IsKeyedFailure(actions[i])
                /\ ~ last.store_error
                /\ raised.stage = "") =>
                  (~ failures.permanent /\ ~ failures.temporary)

C10_MalformedKeyFailsOnlyItsKey ==
    pc = "done" =>
        LET keys == keys_in_order(input_change_msg)
        IN  /\ \A i \in 1..Len(keys) :
                  ~ HasSlash(keys[i].key) =>
                      \E j \in 1..Len(failures.key_permanent) :
                          failures.key_permanent[j] = keys[i].key
            /\ \A i \in 1..Len(keys) :
                  HasSlash(keys[i].key) =>
                      \E j \in 1..Len(calls) : calls[j].key = keys[i].key

\* --------------------------------------------------- claims on the envelope
\* C11: a catalogue change message lacking bucket_name, source or target
\* fails as a whole and permanently: consume returns permanent = true,
\* temporary = false and empty per-key lists, no handler is called for any
\* key, no action runs and nothing is published.
C11_SchemaFailureIsPermanent ==
    (/\ messager = "CatalogueChangeMessager"
     /\ pc = "done"
     /\ (msg.bucket_name = None \/ msg.source = None \/ msg.target = None)) =>
        /\ outcome = "returned"
        /\ failures = Failures(<< >>, << >>, TRUE, FALSE)
        /\ calls = << >>
        /\ actions = << >>
        /\ idx = 0
        /\ published = << >>

C11_Witness ==
    /\ messager = "CatalogueChangeMessager"
    /\ pc = "done"
    /\ msg.source = None
    /\ msg.bucket_name # None
    /\ Len(msg.added_keys) = 1
    /\ Len(msg.deleted_keys) = 1
    /\ failures.permanent
    /\ calls = << >>

\* The catalogue path of an input key: what follows its first "/".
IsCatPathOf(cat_path, key) ==
    \E i \in 1..Len(key) :
        /\ key[i] = "/"
        /\ \A j \in 1..(i - 1) : key[j] # "/"
        /\ cat_path = SubSeq(key, i + 1, Len(key))

\* What the first n handler calls contribute to the action list: the actions
\* a call returned, or one failure action naming its key if it raised.
RECURSIVE PerKeyResults(_, _)
PerKeyResults(cs, n) ==
    IF n = 0 THEN << >>
    ELSE IF cs[n].exc = NoExc
    THEN PerKeyResults(cs, n - 1) \o cs[n].returned
    ELSE Append(PerKeyResults(cs, n - 1),
                FailureAction(cs[n].key, actions[Len(PerKeyResults(cs, n - 1)) + 1].permanent))

\* C12: for a valid message whose keys all have the form <prefix>/<path>,
\* process_msg calls a handler exactly once per key, the added keys first,
\* then the updated keys, then the deleted keys, each list in its order;
\* process_update for added and updated keys and process_delete for deleted
\* keys, with cat_path the key without its first "/"-delimited prefix; and
\* the action list is the concatenation of the per-key results in that order.
C12_OncePerKeyInOrder ==
    (/\ messager = "CatalogueChangeMessager"
     /\ pc \in {"run_actions", "publish", "done"}
     /\ msg.bucket_name # None /\ msg.source # None /\ msg.target # None
     /\ \A k \in Range(msg.added_keys \o msg.updated_keys \o msg.deleted_keys) : HasSlash(k)) =>
        LET keys == msg.added_keys \o msg.updated_keys \o msg.deleted_keys
            updates == Len(msg.added_keys) + Len(msg.updated_keys)
        IN  /\ Len(calls) = Len(keys)
            /\ \A i \in 1..Len(keys) :
                  /\ calls[i].key = keys[i]
                  /\ calls[i].handler = IF i <= updates THEN "process_update" ELSE "process_delete"
                  /\ IsCatPathOf(calls[i].cat_path, keys[i])
            /\ actions = PerKeyResults(calls, Len(calls))

C12_Witness ==
    /\ messager = "CatalogueChangeMessager"
    /\ pc = "done"
    /\ Len(msg.added_keys) = 1
    /\ Len(msg.deleted_keys) = 1
    /\ msg.added_keys[1] # msg.deleted_keys[1]
    /\ Len(calls) = 2
    /\ calls[1].handler = "process_update"
    /\ calls[1].cat_path = <<"a", "/", "b">>
    /\ calls[2].handler = "process_delete"
    /\ calls[2].cat_path = <<"a">>
    /\ Len(actions) = 2
    /\ actions[1] = OutputFileAction(None, "new", <<"a", "/", "b">>)
    /\ actions[2] = OutputFileAction(None, "new", <<"a">>)

\* C13: when consume runs concurrently for different messages on one
\* CatalogueChangeMessager, every notification a call publishes carries the
\* id, workspace, source and target of that call's own input message.
C13_NotificationOfOwnMessage ==
    \A t \in Threads :
        tstate[t].sent # << >> =>
            /\ tstate[t].sent[1].id = tstate[t].msg.id
            /\ tstate[t].sent[1].workspace = tstate[t].msg.workspace
            /\ tstate[t].sent[1].source = tstate[t].msg.source
            /\ tstate[t].sent[1].target = tstate[t].msg.target

\* ------------------------------------------- claims on the body messagers
\* The store-error predicate: a connection or timeout error or a 5xx
\* response is temporary, any other store error permanent.
StoreErrorIsTemporary(e) ==
    e.cls = "ConnectionError" \/ (e.cls = "ClientError" /\ e.status >= 500)

IsNotFound(answer) == answer.exc.cls = "ClientError" /\ answer.exc.code = "NoSuchKey"

\* The first of the four answers that is not "not found", 5 if all are.
FirstAnswer(results) ==
    IF \A i \in 1..4 : IsNotFound(results[i]) THEN 5
    ELSE CHOOSE i \in 1..4 :
            /\ ~ IsNotFound(results[i])
            /\ \A j \in 1..(i - 1) : IsNotFound(results[j])

\* C14: process_update of a body messager fetches at most 4 times (the first
\* fetch and 3 retries after "not found"); if a body is there on the first
\* fetch or on one of the retries it is passed on and the fetch records no
\* failure; if all four fetches say "not found" the error propagates and the
\* key becomes a per-key failure, permanent or temporary as the store-error
\* predicate says; and any other fetch error ends the fetching at once and
\* is reported for the key in the same way.
C14_FetchRetriesNotFound ==
    \A i \in 1..Len(calls) :
        (messager \in BodyMessagers /\ calls[i].handler = "process_update") =>
            LET c == calls[i]
                first == FirstAnswer(c.results)
                failed(e) ==
                    /\ c.exc = e
                    /\ c.entry_body = NoBody
                    /\ c.inner.called = ""
                    /\ FailureAction(c.key, ~ StoreErrorIsTemporary(e)) \in Range(actions)
                    /\ pc = "done" =>
                          c.key \in Range(IF StoreErrorIsTemporary(e)
                                          THEN failures.key_temporary
                                          ELSE failures.key_permanent)
            IN  /\ c.gets \in 1..4
                /\ (first <= 4 /\ c.results[first].exc = NoExc) =>
                      /\ c.gets = first
                      /\ c.entry_body # NoBody
                      /\ c.entry_body.raw = c.results[first].body
                      /\ c.exc = c.inner.exc
                      /\ messager = "CatalogueChangeBodyMessager" =>
                            c.inner.called = "process_update_body"
                /\ first = 5 =>
                      /\ c.gets = 4
                      /\ failed(NoSuchKey)
                /\ (first <= 4 /\ c.results[first].exc # NoExc) =>
                      /\ c.gets = first
                      /\ failed(c.results[first].exc)

C14_Witness ==
    /\ messager = "CatalogueChangeBodyMessager"
    /\ pc = "done"
    /\ Len(calls) = 2
    /\ calls[1].handler = "process_update"
    /\ FirstAnswer(calls[1].results) = 4
    /\ calls[1].gets = 4
    /\ calls[1].inner.called = "process_update_body"
    /\ calls[1].exc = NoExc
    /\ calls[2].handler = "process_update"
    /\ FirstAnswer(calls[2].results) = 5
    /\ failures = Failures(<<calls[2].key>>, << >>, FALSE, FALSE)
    /\ Len(published) = 1

\* C15: in a CatalogueSTACChangeMessager an added or updated key whose
\* fetched body is not JSON, not a JSON object or an object without
\* stac_version yields no action and no failure, and process_update_stac is
\* not called for it; a body that is an object with stac_version goes to
\* process_update_stac once and the key yields exactly what that call
\* returns; a deleted key goes to process_delete and nothing is fetched.
C15_OnlySTACBodies ==
    messager = "CatalogueSTACChangeMessager" =>
        /\ \A i \in 1..Len(calls) :
              LET c == calls[i]
              IN  /\ (c.handler = "process_update" /\ c.entry_body # NoBody) =>
                        IF c.entry_body.raw \in {"notjson", "[1]", "{not: stac}"}
                        THEN /\ c.returned = << >>
                             /\ c.exc = NoExc
                             /\ c.inner.called = ""
                        ELSE /\ c.inner.called = "process_update_stac"
                             /\ c.returned = c.inner.returned
                             /\ c.exc = c.inner.exc
                  /\ i > Len(msg.added_keys) + Len(msg.updated_keys) =>
                        /\ c.handler = "process_delete"
                        /\ c.gets = 0
                        /\ c.entry_body = NoBody
        /\ pc \in {"run_actions", "publish", "done"} =>
              actions = PerKeyResults(calls, Len(calls))

C15_Witness ==
    /\ messager = "CatalogueSTACChangeMessager"
    /\ pc = "done"
    /\ Len(calls) = 2
    /\ calls[1].entry_body # NoBody
    /\ calls[1].entry_body.raw = "{not: stac}"
    /\ calls[2].entry_body # NoBody
    /\ calls[2].entry_body.raw = "{stac_version: 1.0.0}"
    /\ calls[2].inner.exc = NoExc
    /\ Len(actions) = 1
    /\ actions = calls[2].inner.returned
    /\ failures = EmptyFailures
    /\ Len(published) = 1

\* --------------------------------------------- claims on publish failures
\* C16: if encoding the notification fails, consume sets the permanent flag
\* and not the temporary one; if the send fails, it sets the temporary flag
\* for a retryable broker error (a timeout) and the permanent flag for any
\* other error; either way nothing else of the Failures changes, no
\* notification is delivered, and the store is left as the actions made it.
C16_PublishFailure ==
    /\ [](raised.stage \in {"encode", "send"} =>
            /\ pc = "done"
            /\ outcome = "returned"
            /\ published = << >>
            /\ idx = Len(actions)
            /\ failures =
                  IF raised.stage = "send" /\ raised.exc.cls = "Timeout"
                  THEN [raised.before EXCEPT !.temporary = TRUE]
                  ELSE [raised.before EXCEPT !.permanent = TRUE])
    /\ [][pc = "publish" => store' = store]_vars

C16_Witness ==
    /\ pc = "done"
    /\ raised.stage = "send"
    /\ raised.exc = PulsarTimeout
    /\ failures = Failures(<< >>, << >>, FALSE, TRUE)
    /\ published = << >>
    /\ Len(cat_changes.added) = 2
    /\ \A i \in 1..2 : store[<<output_bucket, cat_changes.added[i]>>] = "new"

\* ------------------------------------------------- claims on the Runner
\* The calls of the last handler that are one of `names`, in order.
LastCalls(names) == SelectSeq(rlast.calls, LAMBDA x : x.call \in names)
AllConsumers(b) == \A c \in Range(_messager_consumers) : listener_paused[c] = b

\* C17: for a message dispatched to a messager whose consume returns, the
\* Runner makes exactly one call of acknowledge / negative_acknowledge, on
\* the receiving consumer and after consume: negative_acknowledge exactly
\* if the Failures has the temporary flag or a key in key_temporary
\* (whatever its permanent failures), acknowledge otherwise.
C17_AckOrNack ==
    (rlast.handler = "_process_messager_msg" /\ rlast.returned) =>
        LET f == rlast.result
            temporary == f.temporary \/ Len(f.key_temporary) > 0
        IN  /\ Len(rlast.calls) = 2
            /\ rlast.calls[1].call = "consume"
            /\ rlast.calls[2].on = rlast.consumer
            /\ rlast.calls[2].call =
                  IF temporary THEN "negative_acknowledge" ELSE "acknowledge"

C17_Witness ==
    /\ rlast.handler = "_process_messager_msg"
    /\ rlast.returned
    /\ rlast.result = Failures(<<<<"s", "/", "a">>>>, <<<<"s", "/", "a">>>>, TRUE, FALSE)
    /\ rlast.calls[2] = [on |-> rlast.consumer, call |-> "negative_acknowledge"]

\* C18: a Runner not in takeover mode that handles a takeover broadcast
\* naming its own subscription sets _suspended_until to the larger of its
\* previous value and publish time + SUSPEND_TIME and calls
\* pause_message_listener on every owned consumer; and no message of the
\* debug topic is passed to a messager.
C18_TakeoverSuspends ==
    /\ (/\ ~ takeover_mode
        /\ rlast.handler # ""
        /\ rlast.msg.topic_name = <<"x", "eodhp-utils-debugging">>) =>
          /\ rlast.handler = "_process_takeover"
          /\ LastCalls({"consume"}) = << >>
    /\ (rlast.handler = "_process_takeover" /\ rlast.msg.data = "test-subscription") =>
          LET deadline == rlast.msg.publish_timestamp + 5 * 1000
          IN  /\ _suspended_until = IF rlast.before > deadline THEN rlast.before ELSE deadline
              /\ \A c \in Range(_messager_consumers) :
                    \E i \in 1..Len(rlast.calls) :
                        rlast.calls[i] = [on |-> c, call |-> "pause_message_listener"]
              /\ AllConsumers(TRUE)
              /\ LastCalls({"resume_message_listener"}) = << >>

C18_Witness ==
    /\ rlast.handler = "_process_takeover"
    /\ rlast.msg.data = "test-subscription"
    /\ rlast.before > rlast.msg.publish_timestamp + 5 * 1000
    /\ _suspended_until = rlast.before
    /\ Len(LastCalls({"pause_message_listener"})) = 2
    /\ AllConsumers(TRUE)

\* C19: a takeover broadcast naming another subscription (or none) is only
\* acknowledged: _suspended_until keeps its value and no owned consumer is
\* paused or resumed.
C19_OtherSubscriptionIgnored ==
    (rlast.handler = "_process_takeover" /\ rlast.msg.data # "test-subscription") =>
        /\ _suspended_until = rlast.before
        /\ listener_paused = rlast.pbefore
        /\ rlast.calls = <<[on |-> rlast.consumer, call |-> "acknowledge"]>>

C19_Witness ==
    /\ rlast.handler = "_process_takeover"
    /\ rlast.msg.data = "other-subscription"
    /\ rlast.before > now
    /\ _suspended_until = rlast.before
    /\ AllConsumers(TRUE)
    /\ Len(rlast.calls) = 1

\* C20: an iteration of the main loop that finds _suspended_until set and
\* passed calls resume_message_listener once on every owned consumer and
\* resets _suspended_until to 0; an iteration before the deadline, or one
\* that finds the Runner not suspended, resumes nothing and changes nothing.
C20_ResumeOnceAfterDeadline ==
    rlast.handler = "run" =>
        IF rlast.before # 0 /\ rlast.at > rlast.before
        THEN /\ LastCalls({"resume_message_listener"})
                    = [i \in 1..Len(_messager_consumers) |->
                          [on |-> _messager_consumers[i], call |-> "resume_message_listener"]]
             /\ _suspended_until = 0
             /\ AllConsumers(FALSE)
        ELSE /\ LastCalls({"resume_message_listener"}) = << >>
             /\ _suspended_until = rlast.before
             /\ listener_paused = rlast.pbefore

C20_Witness ==
    /\ rlast.handler = "run"
    /\ rlast.before = 5000
    /\ rlast.at = rlast.before + 2500
    /\ \A c \in Range(_messager_consumers) : rlast.pbefore[c]
    /\ Len(LastCalls({"resume_message_listener"})) = 2
    /\ _suspended_until = 0
    /\ AllConsumers(FALSE)

\* C21: a Runner in takeover mode publishes in every iteration of its main
\* loop one broadcast naming its own subscription on the debug topic, the
\* iterations being at least SUSPEND_TIME/2 apart; run(max_loops=n) has
\* published n broadcasts when it returns, and does not return before; no
\* message reaches it through a debug topic consumer, and it never pauses or
\* resumes an owned consumer.
C21_TakeoverBroadcasts ==
    takeover_mode =>
        /\ rlast.handler = "run" =>
              /\ rlast.calls = <<[on |-> "takeover_producer", call |-> "send"]>>
              /\ Len(sent) > 0
              /\ sent[Len(sent)] = [topic_name |-> <<"eodhp-utils-debugging">>,
                                     data |-> "test-subscription",
                                     publish_timestamp |-> rlast.at]
        /\ \A i \in 1..Len(sent) :
              /\ sent[i].data = "test-subscription"
              /\ i > 1 => sent[i].publish_timestamp >= sent[i - 1].publish_timestamp + 2500
        /\ run_arg > 0 =>
              /\ Len(sent) + max_loops = run_arg
              /\ running <=> Len(sent) < run_arg
        /\ run_arg = 0 => running
        /\ rlast.consumer # "takeover consumer"
        /\ rlast.handler # "_process_takeover"
        /\ LastCalls({"pause_message_listener", "resume_message_listener"}) = << >>
        /\ AllConsumers(FALSE)
        /\ _suspended_until = 0

C21_Witness ==
    /\ takeover_mode
    /\ run_arg = 2
    /\ ~ running
    /\ Len(sent) = 2
    /\ rlast.handler = "run"

\* C22: while a Runner in takeover mode is asserting the takeover (its
\* broadcasts are delivered and the next is not overdue), every other Runner
\* of the subscription is suspended, with a deadline still ahead, and none
\* of them passes a message to its messager.
C22_SiblingsSuspended ==
    /\ TakeoverAsserted =>
          \A i \in Siblings :
              siblings[i].paused /\ siblings[i]._suspended_until > now
    /\ \A k \in 1..Len(dispatched) :
          dispatched[k].asserted => dispatched[k].runner = 0

\* C23: when _process_messager_msg is left, by return or by an exception of
\* consume or of the acknowledgement, the active trace context is the one
\* that was active before the call; and consume runs in a span of the
\* subscription under the context extracted from the message properties.
C23_TraceContextRestored ==
    rlast.handler = "_process_messager_msg" =>
        /\ context = rlast.ctx_before
        /\ LastCalls({"consume"}) # << >> =>
              /\ rlast.ctx_consume.span = "test-subscription"
              /\ rlast.ctx_consume.trace =
                    IF rlast.properties = "None" THEN rlast.ctx_before.trace
                    ELSE rlast.properties

C23_Witness ==
    /\ rlast.handler = "_process_messager_msg"
    /\ rlast.raised = "consume"
    /\ rlast.properties = "harvester_span"
    /\ rlast.ctx_consume = [trace |-> "harvester_span", span |-> "test-subscription"]
    /\ context = [trace |-> "None", span |-> "None"]

\* The items of a sequence of batches, in order.
RECURSIVE Flatten(_)
Flatten(batches) ==
    IF batches = << >> THEN << >> ELSE Head(batches) \o Flatten(Tail(batches))
IsPrefix(p, q) == Len(p) <= Len(q) /\ p = SubSeq(q, 1, Len(p))
ItemsLeft == Len(gr.inputs) - Len(Flatten(gr.messages_received))

\* C24: with threads = 0 the messager receives the input cut into
\* consecutive batches of batch_size items, in source order: the batches
\* received so far spell a prefix of the input, each has batch_size items
\* except that the last batch of the input may have fewer (never none), each
\* consume call has returned before the next batch is delivered, all on the
\* calling thread; when the call ends every item has been delivered once,
\* and for an empty input the messager was not called.
C24_SingleThreadBatches ==
    gr.threads = 0 =>
        /\ IsPrefix(Flatten(gr.messages_received), gr.inputs)
        /\ \A i \in 1..Len(gr.messages_received) :
              LET n == Len(gr.messages_received[i])
              IN  \/ n = gr.batch_size
                  \/ /\ i = Len(gr.messages_received)
                     /\ ItemsLeft = 0
                     /\ n >= 1
                     /\ n < gr.batch_size
        /\ gr.finished = 1..Len(gr.messages_received)
        /\ gr.thread_ids \subseteq {0}
        /\ gr.pc = "done" => Flatten(gr.messages_received) = gr.inputs
        /\ gr.inputs = << >> => gr.messages_received = << >> /\ gr.thread_ids = {}

C24_Witness ==
    /\ gr.threads = 0
    /\ gr.batch_size = 2
    /\ gr.inputs = <<0, 1, 2>>
    /\ gr.pc = "done"
    /\ gr.messages_received = <<<<0, 1>>, <<2>>>>
    /\ gr.thread_ids = {0}

\* C25: GeneratorRunner.consume returns the merge of the Failures of the
\* batches: permanent (temporary) exactly if some batch reported it, an
\* empty Failures for an empty input; and every batch has been delivered,
\* whatever the batches before it reported.
C25_ReturnsMergedFailures ==
    gr.pc = "done" =>
        /\ gr.raised.cls = "None"
        /\ gr.returned.permanent <=> \E k \in 1..Len(gr.futures) : gr.futures[k].permanent
        /\ gr.returned.temporary <=> \E k \in 1..Len(gr.futures) : gr.futures[k].temporary
        /\ gr.inputs = << >> => gr.returned = EmptyFailures
        /\ Len(Flatten(gr.messages_received)) = Len(gr.inputs)

C27_AddConcatenates ==
    /\ cc_call.add_called =>
          /\ cc_call.raised.cls = "None"
          /\ cc_call.returned.added = cc_call.self.added \o cc_call.other.added
          /\ cc_call.returned.updated = cc_call.self.updated \o cc_call.other.updated
          /\ cc_call.returned.deleted = cc_call.self.deleted \o cc_call.other.deleted
    /\ cc_call.bool_called =>
          (cc_call.truthy <=>
              Len(cc_call.self.added) + Len(cc_call.self.updated) + Len(cc_call.self.deleted) > 0)

\* C28: whatever the interleaving of the takeover handlers with the main
\* loop, there is no state in which _suspended_until is 0, no handler is in
\* progress and an owned consumer is still paused.
C28_NoConsumerLeftPaused ==
    (/\ _suspended_until = 0
     /\ \A t \in Threads : race.handlers[t].pc = "idle") =>
        \A c \in Range(_messager_consumers) : ~ listener_paused[c]

\* C29: _suspended_until is at least publish time + SUSPEND_TIME of every
\* broadcast naming the subscription whose handler has set it since the
\* main loop last reset it.
C29_NoExtensionLost ==
    \A deadline \in race.extended : _suspended_until >= deadline


\* The main loop's last iteration resumed the consumers.
Resumed == rlast.handler = "run" /\ LastCalls({"resume_message_listener"}) # << >>
\* The last broadcast naming the Runner's subscription was handled while the
\* Runner was suspended, before the deadline, and at most SUSPEND_TIME/2
\* before the main loop's last iteration.
LatestWithinHalf ==
    /\ latest_takeover.further
    /\ rlast.at - latest_takeover.at <= (5 * 1000) \div 2

KeyBag(keys) == [k \in Range(keys) |-> Cardinality({i \in 1..Len(keys) : keys[i] = k})]
\* Associativity, identity and unmodified operands of Failures.add, and the
\* flags of a.add(b) and b.add(a).
MergeLaws ==
    /\ fa_call.ab_c = fa_call.a_bc
    /\ fa_call.a_empty = fa_call.a
    /\ fa_call.empty_a = fa_call.a
    /\ fa_call.after = <<fa_call.a, fa_call.b, fa_call.c>>
    /\ fa_call.ab.permanent = fa_call.ba.permanent
    /\ fa_call.ab.temporary = fa_call.ba.temporary
    /\ fa_call.ab.permanent = (fa_call.a.permanent \/ fa_call.b.permanent)
    /\ fa_call.ab.temporary = (fa_call.a.temporary \/ fa_call.b.temporary)

\* C31 as stated: Failures.add is associative and commutative with the
\* empty Failures as identity, the results being equal as values (flags and
\* key lists), and leaves its operands as they were.
C31_Original ==
    fa_call.called =>
        /\ MergeLaws
        /\ fa_call.ab = fa_call.ba

\* C31 (amended): Failures.add is associative with the empty Failures as
\* identity and leaves its operands as they were; a.add(b) and b.add(a) have
\* the same two flags and the same keys with the same multiplicities in
\* key_permanent and in key_temporary, the receiver's keys coming first.
C31_MergeLaws ==
    fa_call.called =>
        /\ MergeLaws
        /\ KeyBag(fa_call.ab.key_permanent) = KeyBag(fa_call.ba.key_permanent)
        /\ KeyBag(fa_call.ab.key_temporary) = KeyBag(fa_call.ba.key_temporary)
        /\ fa_call.ab.key_permanent = fa_call.a.key_permanent \o fa_call.b.key_permanent
        /\ fa_call.ab.key_temporary = fa_call.a.key_temporary \o fa_call.b.key_temporary

\* Operands with different permanent keys and flags, merged.
C31_Witness ==
    /\ fa_call.called
    /\ fa_call.a = Failures(<<<<"a">>>>, << >>, TRUE, FALSE)
    /\ fa_call.b = Failures(<<<<"b">>>>, <<<<"b">>>>, FALSE, TRUE)
    /\ fa_call.c = Failures(<<<<"a">>>>, <<<<"b">>>>, FALSE, FALSE)
    /\ fa_call.ab.key_permanent = <<<<"a">>, <<"b">>>>
    /\ fa_call.ba.key_permanent = <<<<"b">>, <<"a">>>>
    /\ fa_call.ab_c = Failures(<<<<"a">>, <<"b">>, <<"a">>>>, <<<<"b">>, <<"b">>>>, TRUE, TRUE)


\* The output keys of the actions process_msg produces for message m.
OutputKeysOf(m) ==
    {cat_output_prefix \o split1(e.key)[2] : e \in Range(keys_in_order(m))}
InputKeysOf(m) == {e.key : e \in Range(keys_in_order(m))}
ChangedKeys(cc) == Range(cc.added) \cup Range(cc.updated) \cup Range(cc.deleted)

\* C34: in every interleaving of consume calls on one messager, the
\* CatalogueChanges and the notification of a call hold only keys of the
\* actions produced for its own message, and its Failures only keys of its
\* own message.
C34_LocalToTheCall ==
    \A t \in Threads :
        /\ ChangedKeys(tstate[t].cat_changes) \subseteq OutputKeysOf(tstate[t].msg)
        /\ \A i \in 1..Len(tstate[t].sent) :
              Range(tstate[t].sent[i].added_keys) \cup Range(tstate[t].sent[i].updated_keys)
                    \cup Range(tstate[t].sent[i].deleted_keys)
                 \subseteq OutputKeysOf(tstate[t].msg)
        /\ Range(tstate[t].failures.key_permanent) \cup Range(tstate[t].failures.key_temporary)
              \subseteq InputKeysOf(tstate[t].msg)


\* The list of cc that holds key k ("" if none does).
Class(cc, k) ==
    IF k \in Range(cc.added) THEN "added"
    ELSE IF k \in Range(cc.updated) THEN "updated"
    ELSE IF k \in Range(cc.deleted) THEN "deleted"
    ELSE ""
\* The keys both deliveries of the message have classified.
ClassifiedTwice ==
    IF previous.redelivered
    THEN ChangedKeys(previous.cat_changes) \cap ChangedKeys(cat_changes)
    ELSE {}

\* C32 as stated: on redelivery every output key is classified as it was
\* in the first run.
C32_Original ==
    \A k \in ClassifiedTwice : Class(cat_changes, k) = Class(previous.cat_changes, k)

\* C32 (amended): on redelivery of a message whose actions name different
\* output keys, a key the first run classified deleted or updated is
\* classified the same again; a key it classified added is classified added
\* again only if the first run's write for it was not applied, and updated
\* if it was.
C32_RedeliveryClassification ==
    \A k \in ClassifiedTwice :
        LET first == Class(previous.cat_changes, k)
            second == Class(cat_changes, k)
            written == previous.store[<<output_bucket, k>>] # None
        IN  /\ first \in {"deleted", "updated"} => second = first
            /\ first = "added" => second = (IF written THEN "updated" ELSE "added")

\* A key the first run added and wrote is updated by the second run, and
\* both runs published their notification.
C32_Witness ==
    /\ previous.redelivered
    /\ pc = "done"
    /\ previous.cat_changes = CatalogueChanges(<<<<"o", "/", "a">>>>, << >>, << >>)
    /\ previous.failures = EmptyFailures
    /\ Len(previous.published) = 1
    /\ cat_changes = CatalogueChanges(<< >>, <<<<"o", "/", "a">>>>, << >>)
    /\ Len(published) = 1
    /\ published[1].updated_keys = <<<<"o", "/", "a">>>>


\* The process_update calls of a body messager made so far.
BodyFetches ==
    {i \in 1..Len(calls) : messager \in BodyMessagers /\ calls[i].handler = "process_update"}

\* C35 as stated: for one input key get_object is called at most 3 times.
C35_Original ==
    \A i \in BodyFetches : calls[i].gets <= 3

\* C35 (amended): the fetch is bounded to 3 retries, that is 4 attempts: for
\* one input key get_object is called at most 4 times in total, every call
\* but the last was answered "not found", and the not-found error is given
\* up on only when the fourth call has answered it.
C35_FetchBound ==
    \A i \in BodyFetches :
        /\ calls[i].gets <= 4
        /\ \A j \in 1..(calls[i].gets - 1) : IsNotFound(calls[i].results[j])
        /\ calls[i].exc = NoSuchKey => calls[i].gets = 4

\* A key whose four fetches all said "not found".
C35_Witness ==
    /\ pc = "done"
    /\ \E i \in BodyFetches :
          /\ calls[i].gets = 4
          /\ calls[i].exc = NoSuchKey
          /\ calls[i].key \in Range(failures.key_permanent)


\* ------------------------------------------------- claims on store errors
\* The last action has run and nothing was raised since.
AfterLastAction == last.ran /\ raised = NotRaised
\* The failures after a store error e struck with failures f recorded.
FlagSet(f, temporary) ==
    IF temporary THEN [f EXCEPT !.temporary = TRUE] ELSE [f EXCEPT !.permanent = TRUE]
\* Connection, timeout, capacity and server-side conditions.
ConnectionTimeoutCapacityOr5xx(e) ==
    \/ e.cls \in {"ConnectionError", "HTTPClientError", "CapacityNotAvailableError"}
    \/ e.cls = "ClientError" /\ e.status >= 500
\* The store errors the code takes for retryable.
RetryableStoreError(e) ==
    \/ ConnectionTimeoutCapacityOr5xx(e)
    \/ e.cls \in {"NoCredentialsError", "PaginationError", "ChecksumError", "WaiterError",
                  "IncompleteReadError"}

\* C33 as stated: a store error of an S3 action sets the temporary flag if
\* and only if it is a connection, timeout, capacity or 5xx condition, and
\* the permanent flag otherwise.
C33_Original ==
    (AfterLastAction /\ last.error # NoExc) =>
        failures = FlagSet(last.fbefore, ConnectionTimeoutCapacityOr5xx(last.error))

\* C33 (amended): a store error of an S3 action sets the temporary flag if
\* and only if it is a ClientError with HTTP status 500 or more or a
\* BotoCoreError of the classes ConnectionError, HTTPClientError,
\* CapacityNotAvailableError, NoCredentialsError, PaginationError,
\* ChecksumError, WaiterError or IncompleteReadError; every other store
\* error (a ClientError below 500, any other BotoCoreError) sets the
\* permanent flag; one failing action sets exactly one of the flags and
\* leaves the other and the per-key lists as they were.
C33_StoreErrorClassification ==
    (AfterLastAction /\ last.error # NoExc) =>
        failures = FlagSet(last.fbefore, RetryableStoreError(last.error))

\* After a permanent store error of the first action, the second action
\* meets missing credentials and sets the temporary flag.
C33_Witness ==
    /\ AfterLastAction
    /\ idx = 2
    /\ last.error = Exc("NoCredentialsError", 0, "")
    /\ last.fbefore = Failures(<< >>, << >>, TRUE, FALSE)
    /\ failures = Failures(<< >>, << >>, TRUE, TRUE)

\* C36: a store error (BotoCoreError or ClientError) never leaves
\* _runaction, so it does not end the loop over the actions: a call that
\* gets past the actions has executed every one of them; the failing action
\* leaves the store as the actions before it left it; and a call whose
\* actions recorded a catalogue change reaches the publishing step, where,
\* unless the publishing itself raises, the notification is sent although
\* the returned Failures has a flag set.
C36_StoreErrorDoesNotAbort ==
    /\ (pc = "done" /\ raised.stage = "_runaction") => ~ IsBotoError(raised.exc)
    /\ (pc \in {"publish", "done"} /\ raised.stage \notin {"process_msg", "_runaction"}) =>
          idx = Len(actions)
    /\ (last.ran /\ last.error # NoExc) => store = last.sbefore
    /\ (pc = "done" /\ raised = NotRaised /\ cat_changes # EmptyChanges) =>
          /\ Len(published) = 1
          /\ published[1].added_keys = cat_changes.added
          /\ published[1].updated_keys = cat_changes.updated
          /\ published[1].deleted_keys = cat_changes.deleted
          /\ last.store_error => failures.temporary \/ failures.permanent

\* The first action's write timed out, the second action wrote its object,
\* and the notification for the second action's key was published.
C36_Witness ==
    /\ pc = "done"
    /\ raised = NotRaised
    /\ Len(actions) = 2
    /\ idx = 2
    /\ actions[1].type = "S3UploadAction"
    /\ last.store_error
    /\ last.error = NoExc
    /\ last.action = OutputFileAction(None, "new", <<"a">>)
    /\ store[<<output_bucket, <<"o", "/", "a">>>>] = "new"
    /\ last.sbefore = EmptyStore
    /\ failures = Failures(<< >>, << >>, FALSE, TRUE)
    /\ Len(published) = 1
    /\ published[1].added_keys = <<<<"o", "/", "a">>>>

\* C37: for an OutputFileAction with a payload, a not-found answer of the
\* existence check puts the key at the end of `added` and the write goes
\* ahead; any other error of the check sets the temporary or the permanent
\* flag as the store-error predicate says, leaves added, updated and
\* deleted as they were, and the write is not performed.
C37_ExistenceCheckErrors ==
    (AfterLastAction /\ needs_head(last.action)) =>
        /\ (~ last.head_failed /\ ~ LastExisted) =>
              /\ cat_changes = [last.before EXCEPT !.added = Append(@, LastKey)]
              /\ ~ last.write_failed =>
                    store = [last.sbefore EXCEPT ![<<LastBucket, LastKey>>] = last.action.file_body]
              /\ ~ last.write_failed => failures = last.fbefore
        /\ last.head_failed =>
              /\ cat_changes = last.before
              /\ store = last.sbefore
              /\ failures = FlagSet(last.fbefore, RetryableStoreError(last.error))

\* The existence check is denied access: nothing is classified, written or
\* published and the call returns a permanent failure.
C37_Witness ==
    /\ pc = "done"
    /\ AfterLastAction
    /\ needs_head(last.action)
    /\ last.head_failed
    /\ last.error = AccessDenied
    /\ ~ LastExisted
    /\ cat_changes = EmptyChanges
    /\ store = EmptyStore
    /\ published = << >>
    /\ failures = Failures(<< >>, << >>, TRUE, FALSE)


\* ------------------------------------------ claims on the worker pool
\* The workers whose Messager.consume call is in progress.
InConsume == {w \in 1..MaxThreads : gr.workers[w].state = "running"}
\* The workers holding a batch.
Busy == {w \in 1..MaxThreads : gr.workers[w].state # "idle"}

\* C38: with threads = n >= 1 at most n Messager.consume calls are in
\* progress at any time (at most n workers hold a batch); the workers take
\* only batches the calling thread has drawn from the input and submitted,
\* each at most once, and consume only on worker threads; and the call ends
\* only when every batch has been submitted and the Messager.consume call
\* of every batch has completed.
C38_BoundedWorkerPool ==
    gr.threads >= 1 =>
        /\ Cardinality(InConsume) <= gr.threads
        /\ Cardinality(Busy) <= gr.threads
        /\ gr.spawned <= gr.threads
        /\ Range(gr.taken) \cup Range(gr.work_queue) \subseteq 1..gr.submitted
        /\ \A i, j \in 1..Len(gr.taken) : gr.taken[i] = gr.taken[j] => i = j
        /\ MainThread \notin gr.thread_ids
        /\ gr.pc = "done" =>
              /\ gr.submitted = Len(batched_inputs)
              /\ gr.finished = 1..Len(batched_inputs)
              /\ Len(gr.messages_received) = Len(batched_inputs)
              /\ Busy = {}
              /\ gr.work_queue = << >>

\* Two workers are in Messager.consume while a third batch waits in the
\* queue.
C38_Witness ==
    /\ gr.threads = 2
    /\ gr.inputs = <<0, 1, 2>>
    /\ gr.batch_size = 1
    /\ InConsume = {1, 2}
    /\ gr.work_queue = <<3>>
    /\ gr.pc = "map"


\* ------------------------------------------ claims on PulsarJSONMessager
\* consume has got past process_msg and the actions.
ActionsDone == pc = "done" /\ raised.stage \notin {"process_msg", "_runaction"}

\* C39: when the actions of a PulsarJSONMessager have recorded a catalogue
\* change (an OutputFileAction ran and its existence check, if it had one,
\* answered), the store write or delete of a fault-free OutputFileAction
\* has been performed and stays, gen_empty_catalogue_message raises
\* NotImplementedError, consume catches it and returns with the permanent
\* flag set and nothing published; when the actions hold no
\* OutputFileAction nothing is raised after them, and without a store fault
\* or a FailureAction the returned Failures is empty.
C39_JSONMessagerCannotAnnounce ==
    (messager = "PulsarJSONMessager" /\ ActionsDone) =>
        /\ published = << >>
        /\ idx = Len(actions)
        /\ cat_changes # EmptyChanges =>
              /\ raised.stage = "gen_empty_catalogue_message"
              /\ raised.exc = NotImplementedError
              /\ outcome = "returned"
              /\ failures = [raised.before EXCEPT !.permanent = TRUE]
        /\ (last.ran /\ last.action.type = "OutputFileAction" /\ last.error = NoExc) =>
              /\ cat_changes # EmptyChanges
              /\ store[<<LastBucket, LastKey>>] = last.action.file_body
        /\ (\A i \in 1..Len(actions) : actions[i].type # "OutputFileAction") =>
              /\ raised = NotRaised
              /\ outcome = "returned"
              /\ cat_changes = EmptyChanges
              /\ (~ last.store_error
                    /\ \A i \in 1..Len(actions) : actions[i].type # "FailureAction") =>
                      failures = EmptyFailures

\* An OutputFileAction wrote its object and consume returned a permanent
\* failure without a notification.
C39_Witness ==
    /\ messager = "PulsarJSONMessager"
    /\ pc = "done"
    /\ actions = <<OutputFileAction(None, "new", <<"a">>)>>
    /\ last.error = NoExc
    /\ store[<<output_bucket, <<"o", "/", "a">>>>] = "new"
    /\ cat_changes = CatalogueChanges(<<<<"o", "/", "a">>>>, << >>, << >>)
    /\ raised.exc = NotImplementedError
    /\ outcome = "returned"
    /\ failures = Failures(<< >>, << >>, TRUE, FALSE)
    /\ published = << >>


\* ------------------------------------- claims on incomplete messages
\* The first key list the message lacks.
FirstMissing(m) ==
    IF m.added_keys = NoList THEN "added_keys"
    ELSE IF m.updated_keys = NoList THEN "updated_keys"
    ELSE IF m.deleted_keys = NoList THEN "deleted_keys"
    ELSE ""
\* The keys of the lists in front of the first missing one.
KeysBeforeMissing(m) ==
    IF FirstMissing(m) = "added_keys" THEN << >>
    ELSE IF FirstMissing(m) = "updated_keys" THEN m.added_keys
    ELSE m.added_keys \o m.updated_keys

\* C40: a message with bucket_name, source and target that lacks one of
\* the three key lists passes validation and is kept as input_change_msg,
\* and its consume call ends with only the permanent flag set, no per-key
\* failure, no action run, the store untouched and nothing published; when
\* the loop reaches the missing list (no malformed key stopped it before)
\* the handlers have been called for exactly the keys of the lists in front
\* of it, in order.
C40_MissingKeyList ==
    (pc = "done" /\ FirstMissing(msg) # "") =>
        /\ get_message_data(msg) = NoExc
        /\ input_change_msg = msg
        /\ outcome = "returned"
        /\ failures = Failures(<< >>, << >>, TRUE, FALSE)
        /\ idx = 0
        /\ ~ last.ran
        /\ store = EmptyStore
        /\ published = << >>
        /\ raised.stage = "process_msg"
        /\ raised.exc \in {TypeError, ValueError}
        /\ raised.exc = TypeError =>
              /\ Len(calls) = Len(KeysBeforeMissing(msg))
              /\ \A i \in 1..Len(calls) :
                    /\ calls[i].key = KeysBeforeMissing(msg)[i]
                    /\ calls[i].handler = "process_update"

\* updated_keys is missing: process_update has returned an action for the
\* added key, which is never run.
C40_Witness ==
    /\ pc = "done"
    /\ msg.added_keys = <<<<"s", "/", "a">>>>
    /\ msg.updated_keys = NoList
    /\ raised.exc = TypeError
    /\ Len(calls) = 1
    /\ calls[1].handler = "process_update"
    /\ calls[1].exc = NoExc
    /\ actions # << >>
    /\ idx = 0
    /\ failures = Failures(<< >>, << >>, TRUE, FALSE)
    /\ published = << >>

====
